---- MODULE Spec2Model ----
(***************************************************************************)
(* Observer side of the meeting recorder: the transcript stream reconciler *)
(* of the Home page (frontend/src/app/settings/page.tsx), the recording     *)
(* state synchronizer (frontend/src/contexts/RecordingStateContext.tsx)     *)
(* and the post-stop processing of handleRecordingStop2.                    *)
(*                                                                         *)
(* Time is in milliseconds.  Date.now() is the variable now.                *)
(***************************************************************************)
EXTENDS Integers, Sequences, FiniteSets, TLC

VARIABLES
    now,                    \* Date.now()
    transcriptBuffer,       \* Map<number, Transcript>, in insertion order
    lastProcessedSequence,  \* watermark of the sequential drain
    processingTimer,        \* due time of the pending debounce timer, or Undefined
    transcriptCounter,      \* suffix counter of Transcript.id
    transcripts,            \* React state: the emitted, ordered transcript list
    drainedBy,              \* history: sequence_id -> drain tier that put it in transcripts
    received,               \* history: sequence ids delivered to the listener
    lastPass,               \* history: what the latest reduction pass drained and added
    flushesInRow,           \* history: forced flushes since the last buffered arrival (up to 2)
    state,                  \* RecordingStateProvider: the cached RecordingState
    pollingIntervalRef,     \* pollingIntervalRef.current: an interval handle, or Undefined
    armedIntervals,         \* the interval handles that are armed
    unsubscribers,          \* the recording events whose listener is registered, in order
    setupFailed,            \* setupListeners ended in its catch
    syncPending,            \* get_recording_state calls issued and not yet answered
    syncReplies,            \* answers on their way back to syncWithBackend
    lastSync,               \* history: how the latest syncWithBackend call ended
    synced,                 \* history: the state set by the latest successful sync
    backend,                \* the backend engine's recording state
    channel,                \* recording events emitted and still deliverable
    stopPc,                 \* Home: where handleRecordingStart / handleRecordingStop2 stand
    isCallApi,              \* handleRecordingStop2: its argument
    elapsedTime,            \* handleRecordingStop2: elapsedTime
    transcriptionComplete,  \* handleRecordingStop2: transcriptionComplete
    unlistenComplete,       \* the transcription-complete listener is registered
    waitUntil,              \* when the setTimeout handleRecordingStop2 awaits is due
    ui,                     \* Home: the flags the two handlers set
    transcriptsRef,         \* transcriptsRef.current
    saved,                  \* the transcripts handed to api_save_transcript, per call
    stopTrace,              \* history: how draining ended, whether the forced flush ran
    second,                 \* a second handleRecordingStop2 call running beside the first
    mount,                  \* which components are mounted and what their cleanups released
    rehydrate,              \* Home's syncFromBackend effect and the backend's transcript history
    autoStart,              \* Home's auto-start-recording listener: start commands invoked, awaited
    stateCheck              \* Home's recording state check: the isRecording it closed over, calls awaited, last answer

recVars == <<now, transcriptBuffer, lastProcessedSequence, processingTimer,
             transcriptCounter, transcripts, drainedBy, received, lastPass,
             flushesInRow>>

syncVars == <<state, pollingIntervalRef, armedIntervals, unsubscribers, setupFailed,
              syncPending, syncReplies, lastSync, synced, backend, channel>>

stopVars == <<stopPc, isCallApi, elapsedTime, transcriptionComplete, unlistenComplete,
              waitUntil, ui, transcriptsRef, saved, stopTrace>>

vars == <<recVars, syncVars, stopVars, second, mount, rehydrate, autoStart, stateCheck>>

-----------------------------------------------------------------------------
(* Bounds of the model *)

MaxSeq == 3          \* sequence ids 1..MaxSeq in the general reconciler runs
MaxArrivals == 3     \* accepted (buffered) arrivals in the general reconciler runs
MaxTime == 101       \* a late debounce timer: the clock does not jump beyond this time
MaxInflight == 1     \* get_recording_state calls in flight at once
MaxDuration == 1     \* durations reported by the backend, in seconds
MaxStopArrivals == 1 \* segments buffered during one recording with its stop
MaxChunks == 1       \* chunks_in_queue reported by get_transcription_status
ArrivalLead == 5     \* a segment arriving this many ms before a wait of the stop ends
MaxBurst == 2        \* accepted arrivals in the runs that follow the debounce timer
MaxStarts == 2       \* start commands invoked by the auto-start-recording listener
MaxChecks == 2       \* is_recording calls of the state check in flight at once

(* Program constants *)

staleThreshold == 100
recentThreshold == 0
DebounceDelay == 10

\* an absent optional value: chunk_start_time?: number, NodeJS.Timeout | undefined
Undefined == -1

SequenceIds == 1..MaxSeq
ChunkTimes == {Undefined, 1}

-----------------------------------------------------------------------------
(* Map<number, Transcript> as the sequence of its values in insertion order *)

BufferKeys(buf) == {buf[i].sequence_id : i \in 1..Len(buf)}

BufferHas(buf, s) == s \in BufferKeys(buf)

BufferGet(buf, s) == buf[CHOOSE i \in 1..Len(buf) : buf[i].sequence_id = s]

BufferDelete(buf, s) == SelectSeq(buf, LAMBDA t : t.sequence_id # s)

\* x || 0 on an optional number
OrZero(x) == IF x = Undefined THEN 0 ELSE x

\* parseInt(transcript.id.split('-')[0]) of an id `${Date.now()}-${counter}`
IdTime(id) == id[1]

transcriptAge(t) == now - IdTime(t.id)

-----------------------------------------------------------------------------
(* The comparator of sortTranscripts and of the merge *)

CompareTranscripts(a, b) ==
    LET chunkTimeDiff == OrZero(a.chunk_start_time) - OrZero(b.chunk_start_time)
    IN  IF chunkTimeDiff # 0 THEN chunkTimeDiff
        ELSE OrZero(a.sequence_id) - OrZero(b.sequence_id)

\* insert t after every element that does not compare greater (a stable sort)
RECURSIVE InsertSorted(_, _)
InsertSorted(sorted, t) ==
    IF sorted = <<>> THEN <<t>>
    ELSE IF CompareTranscripts(sorted[Len(sorted)], t) <= 0 THEN Append(sorted, t)
    ELSE Append(InsertSorted(SubSeq(sorted, 1, Len(sorted) - 1), t), sorted[Len(sorted)])

RECURSIVE SortFrom(_, _)
SortFrom(list, sorted) ==
    IF list = <<>> THEN sorted
    ELSE SortFrom(Tail(list), InsertSorted(sorted, Head(list)))

\* Array.prototype.sort with CompareTranscripts
sortTranscripts(list) == SortFrom(list, <<>>)

-----------------------------------------------------------------------------
(* processBufferedTranscripts *)

\* an if in place of the while: at most one transcript is drained in sequence
SequentialDrainOnce(buf, last, out) ==
    IF BufferHas(buf, last + 1)
    THEN [buffer |-> BufferDelete(buf, last + 1), lastProcessedSequence |-> last + 1,
          sortedTranscripts |-> Append(out, BufferGet(buf, last + 1))]
    ELSE [buffer |-> buf, lastProcessedSequence |-> last, sortedTranscripts |-> out]

\* nextSequence starting at lastProcessedSequence itself: nothing is ever in sequence
SequentialDrainOffByOne(buf, last, out) ==
    [buffer |-> buf, lastProcessedSequence |-> last, sortedTranscripts |-> out]

\* while (transcriptBuffer.has(nextSequence)) { push; delete; advance }
RECURSIVE SequentialDrain(_, _, _)
SequentialDrain(buf, last, out) ==
    IF BufferHas(buf, last + 1)
    THEN SequentialDrain(BufferDelete(buf, last + 1), last + 1,
                         Append(out, BufferGet(buf, last + 1)))
    ELSE [buffer |-> buf, lastProcessedSequence |-> last, sortedTranscripts |-> out]

IsStale(t) == transcriptAge(t) > staleThreshold

\* the recent branch holding back a segment that follows a gap
IsRecentInSequenceOnly(t) ==
    /\ ~IsStale(t)
    /\ transcriptAge(t) >= recentThreshold
    /\ t.sequence_id <= lastProcessedSequence + 1

IsRecent(t) == ~IsStale(t) /\ transcriptAge(t) >= recentThreshold

\* the forced branch deleting without collecting
RemainderDrainDropsForced(buf, forceFlush) ==
    [forceFlushTranscripts |-> <<>>,
     staleTranscripts  |-> IF forceFlush THEN <<>> ELSE SelectSeq(buf, IsStale),
     recentTranscripts |-> IF forceFlush THEN <<>> ELSE SelectSeq(buf, IsRecent),
     buffer |-> IF forceFlush THEN <<>>
                ELSE SelectSeq(buf, LAMBDA t : ~IsStale(t) /\ ~IsRecent(t))]

\* the forced branch without its transcriptBuffer.delete
RemainderDrainKeepForced(buf, forceFlush) ==
    [forceFlushTranscripts |-> IF forceFlush THEN buf ELSE <<>>,
     staleTranscripts  |-> IF forceFlush THEN <<>> ELSE SelectSeq(buf, IsStale),
     recentTranscripts |-> IF forceFlush THEN <<>> ELSE SelectSeq(buf, IsRecent),
     buffer |-> IF forceFlush THEN buf
                ELSE SelectSeq(buf, LAMBDA t : ~IsStale(t) /\ ~IsRecent(t))]

\* the age test draining stale transcripts only: the recent ones wait
RemainderDrainStaleOnly(buf, forceFlush) ==
    [forceFlushTranscripts |-> IF forceFlush THEN buf ELSE <<>>,
     staleTranscripts  |-> IF forceFlush THEN <<>> ELSE SelectSeq(buf, IsStale),
     recentTranscripts |-> <<>>,
     buffer |-> IF forceFlush THEN <<>> ELSE SelectSeq(buf, LAMBDA t : ~IsStale(t))]

\* the loop over transcriptBuffer.entries(): what each branch collects, what stays
RemainderDrain(buf, forceFlush) ==
    [forceFlushTranscripts |-> IF forceFlush THEN buf ELSE <<>>,
     staleTranscripts  |-> IF forceFlush THEN <<>> ELSE SelectSeq(buf, IsStale),
     recentTranscripts |-> IF forceFlush THEN <<>> ELSE SelectSeq(buf, IsRecent),
     buffer |-> IF forceFlush THEN <<>>
                ELSE SelectSeq(buf, LAMBDA t : ~IsStale(t) /\ ~IsRecent(t))]

SequenceIdsOf(list) == {list[i].sequence_id : i \in 1..Len(list)}

\* the filter left out: every drained transcript counts as new
UniqueNewTranscriptsNoFilter(prev, allNewTranscripts) == allNewTranscripts

\* uniqueNewTranscripts: the new ones whose sequence_id is not in prev
UniqueNewTranscripts(prev, allNewTranscripts) ==
    SelectSeq(allNewTranscripts,
              LAMBDA t : t.sequence_id # Undefined
                         /\ t.sequence_id \notin SequenceIdsOf(prev))

\* the merge without its final sort
MergeTranscriptsAppendOnly(prev, allNewTranscripts) ==
    prev \o UniqueNewTranscripts(prev, allNewTranscripts)

\* the merge replacing an entry by its re-delivered copy
MergeTranscriptsReplace(prev, allNewTranscripts) ==
    sortTranscripts(
        SelectSeq(prev, LAMBDA t : t.sequence_id \notin SequenceIdsOf(allNewTranscripts))
        \o allNewTranscripts)

\* the updater passed to setTranscripts
MergeTranscripts(prev, allNewTranscripts) ==
    LET uniqueNewTranscripts == UniqueNewTranscripts(prev, allNewTranscripts)
    IN  IF uniqueNewTranscripts = <<>> THEN prev
        ELSE sortTranscripts(prev \o uniqueNewTranscripts)

\* the tier of every sequence id of a batch, for the history variable
TierMap(list, tier) == [s \in SequenceIdsOf(list) |-> tier]

processBufferedTranscripts(forceFlush) ==
    LET seqd == SequentialDrain(transcriptBuffer, lastProcessedSequence, <<>>)
        rest == RemainderDrain(seqd.buffer, forceFlush)
        sortedStaleTranscripts == sortTranscripts(rest.staleTranscripts)
        sortedRecentTranscripts == sortTranscripts(rest.recentTranscripts)
        sortedForceFlushTranscripts == sortTranscripts(rest.forceFlushTranscripts)
        allNewTranscripts == seqd.sortedTranscripts \o sortedRecentTranscripts
                             \o sortedStaleTranscripts \o sortedForceFlushTranscripts
        uniqueNewTranscripts == UniqueNewTranscripts(transcripts, allNewTranscripts)
        tiers == TierMap(seqd.sortedTranscripts, "sequential")
                 @@ TierMap(rest.recentTranscripts, "recent")
                 @@ TierMap(rest.staleTranscripts, "stale")
                 @@ TierMap(rest.forceFlushTranscripts, "forced")
    IN  /\ transcriptBuffer' = rest.buffer
        /\ lastProcessedSequence' = seqd.lastProcessedSequence
        /\ transcripts' = IF allNewTranscripts # <<>>
                          THEN MergeTranscripts(transcripts, allNewTranscripts)
                          ELSE transcripts
        /\ drainedBy' = drainedBy @@ tiers
        /\ lastPass' = [forceFlush |-> forceFlush,
                        sequential |-> SequenceIdsOf(seqd.sortedTranscripts),
                        drained |-> SequenceIdsOf(allNewTranscripts),
                        added |-> SequenceIdsOf(uniqueNewTranscripts)]

-----------------------------------------------------------------------------
(* The transcript-update listener *)

\* the listener without its clearTimeout and re-arming: a pending timer keeps its due time
TranscriptUpdateKeepsTimer(payload) ==
    /\ received' = received \cup {payload.sequence_id}
    /\ IF BufferHas(transcriptBuffer, payload.sequence_id)
       THEN UNCHANGED <<now, transcriptBuffer, lastProcessedSequence, processingTimer,
                        transcriptCounter, transcripts, drainedBy, lastPass,
                        flushesInRow>>
       ELSE /\ transcriptBuffer' = Append(transcriptBuffer,
                   [id |-> <<now, transcriptCounter>>,
                    sequence_id |-> payload.sequence_id,
                    chunk_start_time |-> payload.chunk_start_time])
            /\ transcriptCounter' = transcriptCounter + 1
            /\ processingTimer' = IF processingTimer # Undefined THEN processingTimer
                                  ELSE now + DebounceDelay
            /\ flushesInRow' = 0
            /\ UNCHANGED <<now, lastProcessedSequence, transcripts, drainedBy, lastPass>>

TranscriptUpdate(payload) ==
    /\ received' = received \cup {payload.sequence_id}
    /\ IF BufferHas(transcriptBuffer, payload.sequence_id)
       THEN UNCHANGED <<now, transcriptBuffer, lastProcessedSequence, processingTimer,
                        transcriptCounter, transcripts, drainedBy, lastPass,
                        flushesInRow>>
       ELSE /\ transcriptBuffer' = Append(transcriptBuffer,
                   [id |-> <<now, transcriptCounter>>,
                    sequence_id |-> payload.sequence_id,
                    chunk_start_time |-> payload.chunk_start_time])
            /\ transcriptCounter' = transcriptCounter + 1
            /\ processingTimer' = now + DebounceDelay
            /\ flushesInRow' = 0
            /\ UNCHANGED <<now, lastProcessedSequence, transcripts, drainedBy, lastPass>>

\* the debounce timer fires: setTimeout(processBufferedTranscripts, 10)
TimerFire ==
    /\ processingTimer # Undefined
    /\ now >= processingTimer
    /\ processBufferedTranscripts(FALSE)
    /\ processingTimer' = Undefined
    /\ UNCHANGED <<now, transcriptCounter, received, flushesInRow>>

\* finalFlushRef.current()
finalFlushRef ==
    /\ processBufferedTranscripts(TRUE)
    /\ flushesInRow' = IF flushesInRow < 2 THEN flushesInRow + 1 ELSE 2
    /\ UNCHANGED <<processingTimer, transcriptCounter, received>>

\* a forced reduction pass on its own
FinalFlush ==
    /\ finalFlushRef
    /\ UNCHANGED now

-----------------------------------------------------------------------------
(* The clock *)

Advance(d) ==
    /\ now' = now + d
    /\ UNCHANGED <<transcriptBuffer, lastProcessedSequence, processingTimer,
                   transcriptCounter, transcripts, drainedBy, received, lastPass,
                   flushesInRow>>

\* time passes until the pending debounce timer is due
TickToTimer ==
    /\ processingTimer # Undefined
    /\ now < processingTimer
    /\ Advance(processingTimer - now)

\* half the debounce delay passes while the timer is pending
TickPart ==
    /\ processingTimer # Undefined
    /\ now + (DebounceDelay \div 2) < processingTimer
    /\ Advance(DebounceDelay \div 2)

\* the pending debounce timer runs late, by more than the staleness threshold
TickLate ==
    /\ processingTimer # Undefined
    /\ now + staleThreshold + 1 <= MaxTime
    /\ Advance(staleThreshold + 1)

-----------------------------------------------------------------------------
(* The backend engine, as the observer sees it: get_recording_state and the    *)
(* recording events.  Its state satisfies is_active = is_recording /\ ~is_paused *)

Null == -2

NoSync == [none |-> TRUE]

BackendIdle == [is_recording |-> FALSE, is_paused |-> FALSE]

RecordingEvents ==
    <<"recording-started", "recording-stopped", "recording-paused", "recording-resumed">>

Emit(e) == channel' = channel \cup {e}

BackendStart ==
    /\ ~backend.is_recording
    /\ backend' = [is_recording |-> TRUE, is_paused |-> FALSE]
    /\ Emit("recording-started")
    /\ UNCHANGED <<state, pollingIntervalRef, armedIntervals, unsubscribers, setupFailed,
                   syncPending, syncReplies, lastSync, synced>>

BackendPause ==
    /\ backend.is_recording /\ ~backend.is_paused
    /\ backend' = [backend EXCEPT !.is_paused = TRUE]
    /\ Emit("recording-paused")
    /\ UNCHANGED <<state, pollingIntervalRef, armedIntervals, unsubscribers, setupFailed,
                   syncPending, syncReplies, lastSync, synced>>

BackendResume ==
    /\ backend.is_recording /\ backend.is_paused
    /\ backend' = [backend EXCEPT !.is_paused = FALSE]
    /\ Emit("recording-resumed")
    /\ UNCHANGED <<state, pollingIntervalRef, armedIntervals, unsubscribers, setupFailed,
                   syncPending, syncReplies, lastSync, synced>>

BackendStop ==
    /\ backend.is_recording
    /\ backend' = BackendIdle
    /\ Emit("recording-stopped")
    /\ UNCHANGED <<state, pollingIntervalRef, armedIntervals, unsubscribers, setupFailed,
                   syncPending, syncReplies, lastSync, synced>>

\* what get_recording_state may answer now: the durations are set while recording
Snapshots ==
    IF backend.is_recording
    THEN {[ok |-> TRUE, is_recording |-> TRUE, is_paused |-> backend.is_paused,
           is_active |-> ~backend.is_paused,
           recording_duration |-> rd, active_duration |-> ad] :
              rd \in 1..MaxDuration, ad \in 1..MaxDuration}
    ELSE {[ok |-> TRUE, is_recording |-> FALSE, is_paused |-> FALSE, is_active |-> FALSE,
           recording_duration |-> Null, active_duration |-> Null]}

QueryError == [ok |-> FALSE]

\* a get_recording_state call is answered with r
BackendAnswer(r) ==
    /\ syncPending > 0
    /\ syncPending' = syncPending - 1
    /\ syncReplies' = syncReplies \cup {r}
    /\ UNCHANGED <<state, pollingIntervalRef, armedIntervals, unsubscribers, setupFailed,
                   lastSync, synced, backend, channel>>

\* the backend answers a get_recording_state call, or the call fails
BackendReply == \E r \in Snapshots \cup {QueryError} : BackendAnswer(r)

\* the backend answers a get_recording_state call
BackendReplyOk == \E r \in Snapshots : BackendAnswer(r)

\* an event in flight is lost (or no listener is registered for it)
LoseEvent ==
    /\ \E e \in channel : channel' = channel \ {e}
    /\ UNCHANGED <<state, pollingIntervalRef, armedIntervals, unsubscribers, setupFailed,
                   syncPending, syncReplies, lastSync, synced, backend>>

-----------------------------------------------------------------------------
(* RecordingStateProvider *)

IdleState == [isRecording |-> FALSE, isPaused |-> FALSE, isActive |-> FALSE,
              recordingDuration |-> Null, activeDuration |-> Null]

\* setInterval: a handle that is not armed
NewInterval(armed) == CHOOSE h \in 1..(Cardinality(armed) + 1) : h \notin armed

\* startPolling without its clearInterval of the interval in the ref
startPollingNoClear ==
    LET h == NewInterval(armedIntervals)
    IN  <<h, armedIntervals \cup {h}>>

\* startPolling: <<pollingIntervalRef.current, armed intervals>> afterwards
startPolling ==
    LET cleared == IF pollingIntervalRef # Undefined
                   THEN armedIntervals \ {pollingIntervalRef} ELSE armedIntervals
        h == NewInterval(cleared)
    IN  <<h, cleared \cup {h}>>

\* stopPolling: <<pollingIntervalRef.current, armed intervals>> afterwards
stopPolling ==
    IF pollingIntervalRef # Undefined
    THEN <<Undefined, armedIntervals \ {pollingIntervalRef}>>
    ELSE <<pollingIntervalRef, armedIntervals>>

\* syncWithBackend, up to its await: invoke('get_recording_state')
syncWithBackend ==
    /\ syncPending + Cardinality(syncReplies) < MaxInflight
    /\ syncPending' = syncPending + 1

\* the interval fires
PollTick ==
    /\ armedIntervals # {}
    /\ syncWithBackend
    /\ UNCHANGED <<state, pollingIntervalRef, armedIntervals, unsubscribers, setupFailed,
                   syncReplies, lastSync, synced, backend, channel>>

\* syncWithBackend after its await: the state of a failed call is reset to idle
SyncRejectedResetsState(r) ==
    /\ state' = IdleState
    /\ pollingIntervalRef' = stopPolling[1]
    /\ armedIntervals' = stopPolling[2]

\* syncWithBackend after its await, the call failed: the catch only logs
SyncRejected(r) ==
    UNCHANGED <<state, pollingIntervalRef, armedIntervals>>

\* syncWithBackend after its await, the call succeeded: only the durations are set
SyncResolvedKeepsFlags(r) ==
    /\ state' = [state EXCEPT !.recordingDuration = r.recording_duration,
                              !.activeDuration = r.active_duration]
    /\ UNCHANGED <<pollingIntervalRef, armedIntervals>>

\* syncWithBackend after its await, the call succeeded: setState
SyncResolved(r) ==
    /\ state' = [isRecording |-> r.is_recording,
                 isPaused |-> r.is_paused,
                 isActive |-> r.is_active,
                 recordingDuration |-> r.recording_duration,
                 activeDuration |-> r.active_duration]
    /\ UNCHANGED <<pollingIntervalRef, armedIntervals>>

SyncSettle ==
    \E r \in syncReplies :
        /\ syncReplies' = syncReplies \ {r}
        /\ IF r.ok THEN SyncResolved(r) /\ lastSync' = "ok" /\ synced' = state'
                   ELSE SyncRejected(r) /\ lastSync' = "failed" /\ UNCHANGED synced
        /\ UNCHANGED <<unsubscribers, setupFailed, syncPending, backend, channel>>

\* setupListeners: the next await listen(...) resolves
RegisterListener ==
    /\ ~setupFailed
    /\ Len(unsubscribers) < Len(RecordingEvents)
    /\ unsubscribers' = Append(unsubscribers, RecordingEvents[Len(unsubscribers) + 1])
    /\ UNCHANGED <<state, pollingIntervalRef, armedIntervals, setupFailed,
                   syncPending, syncReplies, lastSync, synced, backend, channel>>

\* setupListeners: the next await listen(...) rejects
RegisterFails ==
    /\ ~setupFailed
    /\ Len(unsubscribers) < Len(RecordingEvents)
    /\ setupFailed' = TRUE
    /\ UNCHANGED <<state, pollingIntervalRef, armedIntervals, unsubscribers,
                   syncPending, syncReplies, lastSync, synced, backend, channel>>

\* the listener of e is subscribed: registered, and not released by the cleanup
Listening(e) ==
    \E i \in (mount.unsubscribed + 1)..Len(unsubscribers) : unsubscribers[i] = e

\* an event is delivered to its listener; it may be delivered again later
Delivered(e) ==
    /\ e \in channel
    /\ Listening(e)
    /\ \E again \in BOOLEAN : channel' = IF again THEN channel ELSE channel \ {e}
    /\ UNCHANGED <<unsubscribers, setupFailed, syncPending, syncReplies, lastSync, synced,
                   backend>>

StartedState(prev) == [prev EXCEPT !.isRecording = TRUE, !.isPaused = FALSE, !.isActive = TRUE]

PausedState(prev) == [prev EXCEPT !.isPaused = TRUE, !.isActive = FALSE]

ResumedState(prev) == [prev EXCEPT !.isPaused = FALSE, !.isActive = TRUE]

OnRecordingStarted ==
    /\ Delivered("recording-started")
    /\ state' = StartedState(state)
    /\ pollingIntervalRef' = startPolling[1]
    /\ armedIntervals' = startPolling[2]

\* the recording-stopped listener without its stopPolling()
OnRecordingStoppedKeepsPolling ==
    /\ Delivered("recording-stopped")
    /\ state' = IdleState
    /\ UNCHANGED <<pollingIntervalRef, armedIntervals>>

OnRecordingStopped ==
    /\ Delivered("recording-stopped")
    /\ state' = IdleState
    /\ pollingIntervalRef' = stopPolling[1]
    /\ armedIntervals' = stopPolling[2]

OnRecordingPaused ==
    /\ Delivered("recording-paused")
    /\ state' = PausedState(state)
    /\ UNCHANGED <<pollingIntervalRef, armedIntervals>>

OnRecordingResumed ==
    /\ Delivered("recording-resumed")
    /\ state' = ResumedState(state)
    /\ UNCHANGED <<pollingIntervalRef, armedIntervals>>

\* the provider has mounted: useState's initial value, both effects have run
\* (setupListeners and the initial syncWithBackend are at their first await);
\* the backend may be in any state of a session
InitSync ==
    /\ state = IdleState
    /\ pollingIntervalRef = Undefined
    /\ armedIntervals = {}
    /\ unsubscribers = <<>>
    /\ setupFailed = FALSE
    /\ syncPending = 1
    /\ syncReplies = {}
    /\ lastSync = "none"
    /\ synced = NoSync
    /\ backend \in {BackendIdle,
                    [is_recording |-> TRUE, is_paused |-> FALSE],
                    [is_recording |-> TRUE, is_paused |-> TRUE]}
    /\ channel = {}

-----------------------------------------------------------------------------
(* Home: handleRecordingStart and handleRecordingStop2 *)

MAX_WAIT_TIME == 60000
POLL_INTERVAL == 500
QuietPeriod == 8000
GraceDelay == 4000
SettleDelay == 500

\* what get_transcription_status may answer
TranscriptionStatus ==
    [chunks_in_queue : 0..MaxChunks,
     is_processing : BOOLEAN,
     last_activity_ms : {0, QuietPeriod, QuietPeriod + 1}]

\* handleRecordingStart; showRecordingNotification may reject (the catch)
handleRecordingStart ==
    /\ stopPc = "idle"
    /\ stopPc' = "recording"
    /\ \E notified \in BOOLEAN :
           ui' = [ui EXCEPT !.isRecordingState = notified, !.isMeetingActive = TRUE]
    /\ transcripts' = <<>>
    /\ received' = {}
    /\ UNCHANGED <<now, transcriptBuffer, lastProcessedSequence, processingTimer,
                   transcriptCounter, drainedBy, lastPass, flushesInRow>>
    /\ UNCHANGED <<isCallApi, elapsedTime, transcriptionComplete, unlistenComplete,
                   waitUntil, transcriptsRef, saved, stopTrace>>

\* the effect on [transcripts]: transcriptsRef.current = transcripts
CommitRender ==
    /\ transcriptsRef # transcripts
    /\ transcriptsRef' = transcripts
    /\ UNCHANGED recVars
    /\ UNCHANGED <<stopPc, isCallApi, elapsedTime, transcriptionComplete, unlistenComplete,
                   waitUntil, ui, saved, stopTrace>>

\* handleRecordingStop2(callApi), up to await listen('transcription-complete');
\* onStopInitiated has set isStopping when the stop comes from the controls
handleRecordingStop2 ==
    /\ stopPc = "recording"
    /\ stopPc' = "listen"
    /\ \E callApi \in BOOLEAN : isCallApi' = callApi
    /\ \E fromControls \in BOOLEAN :
           ui' = [ui EXCEPT !.isStopping = fromControls,
                            !.isRecordingState = FALSE,
                            !.isRecordingDisabled = TRUE,
                            !.isProcessingTranscript = TRUE,
                            !.summaryStatus = "processing"]
    /\ UNCHANGED recVars
    /\ UNCHANGED <<elapsedTime, transcriptionComplete, unlistenComplete, waitUntil,
                   transcriptsRef, saved, stopTrace>>

\* the catch of handleRecordingStop2
StopCatch ==
    /\ stopPc' = "failed"
    /\ ui' = [ui EXCEPT !.summaryStatus = "idle",
                        !.isProcessingTranscript = FALSE,
                        !.isStopping = FALSE,
                        !.isSavingTranscript = FALSE,
                        !.isRecordingDisabled = FALSE]

\* an import or listen('transcription-complete') rejects
ListenRejected ==
    /\ stopPc = "listen"
    /\ StopCatch
    /\ UNCHANGED recVars
    /\ UNCHANGED <<isCallApi, elapsedTime, transcriptionComplete, unlistenComplete,
                   waitUntil, transcriptsRef, saved, stopTrace>>

\* the listener is registered; the while loop is entered and the status queried
ListenResolved ==
    /\ stopPc = "listen"
    /\ unlistenComplete' = TRUE
    /\ elapsedTime' = 0
    /\ transcriptionComplete' = FALSE
    /\ stopPc' = "status"
    /\ UNCHANGED recVars
    /\ UNCHANGED <<isCallApi, waitUntil, ui, transcriptsRef, saved, stopTrace>>

\* the transcription-complete listener runs
OnTranscriptionComplete ==
    /\ unlistenComplete
    /\ ~transcriptionComplete
    /\ transcriptionComplete' = TRUE
    /\ UNCHANGED recVars
    /\ UNCHANGED <<stopPc, isCallApi, elapsedTime, unlistenComplete, waitUntil, ui,
                   transcriptsRef, saved, stopTrace>>

\* the final buffer flush and what follows it up to the 500 ms wait
ForcedFlush ==
    /\ finalFlushRef
    /\ UNCHANGED now
    /\ ui' = [ui EXCEPT !.summaryStatus = "idle",
                        !.isProcessingTranscript = FALSE,
                        !.isStopping = FALSE]
    /\ stopPc' = "settle"
    /\ waitUntil' = now + SettleDelay

\* the statements after the while loop, the handler returning at the maximum wait
AfterLoopReturnsAtMaxWait(complete, elapsed) ==
    /\ unlistenComplete' = FALSE
    /\ UNCHANGED ui
    /\ UNCHANGED recVars
    /\ IF ~complete /\ elapsed >= MAX_WAIT_TIME
       THEN /\ stopTrace' = [drainEnd |-> "maxwait", flushed |-> FALSE]
            /\ stopPc' = "stopped"
            /\ UNCHANGED waitUntil
       ELSE /\ stopTrace' = [drainEnd |-> IF complete THEN "complete" ELSE "break",
                             flushed |-> FALSE]
            /\ stopPc' = "grace"
            /\ waitUntil' = now + GraceDelay

\* the statements after the while loop, with the loop's last values
AfterLoop(complete, elapsed) ==
    /\ unlistenComplete' = FALSE
    /\ IF ~complete /\ elapsed >= MAX_WAIT_TIME
       THEN /\ stopTrace' = [drainEnd |-> "maxwait", flushed |-> TRUE]
            /\ ForcedFlush
       ELSE /\ stopTrace' = [drainEnd |-> IF complete THEN "complete" ELSE "break",
                             flushed |-> FALSE]
            /\ stopPc' = "grace"
            /\ waitUntil' = now + GraceDelay
            /\ UNCHANGED ui
            /\ UNCHANGED recVars

\* get_transcription_status rejects and the error leaves the handler through its
\* outer catch, past the listener cleanup
StatusRejectedSkipsCleanup ==
    /\ stopPc = "status"
    /\ StopCatch
    /\ UNCHANGED recVars
    /\ UNCHANGED <<isCallApi, elapsedTime, transcriptionComplete, unlistenComplete,
                   waitUntil, transcriptsRef, saved, stopTrace>>

\* get_transcription_status rejects: the catch breaks out of the loop
StatusRejected ==
    /\ stopPc = "status"
    /\ AfterLoop(transcriptionComplete, elapsedTime)
    /\ UNCHANGED <<isCallApi, elapsedTime, transcriptionComplete, transcriptsRef, saved>>

\* get_transcription_status resolves with status, completion being declared on the
\* quiet period alone
StatusReplyQuietOnly(status) ==
    /\ stopPc = "status"
    /\ IF status.last_activity_ms > QuietPeriod /\ status.chunks_in_queue = 0
       THEN /\ transcriptionComplete' = TRUE
            /\ AfterLoop(TRUE, elapsedTime)
            /\ UNCHANGED <<isCallApi, elapsedTime, transcriptsRef, saved>>
       ELSE /\ stopPc' = "pollwait"
            /\ waitUntil' = now + POLL_INTERVAL
            /\ UNCHANGED recVars
            /\ UNCHANGED <<isCallApi, elapsedTime, transcriptionComplete, ui,
                           unlistenComplete, transcriptsRef, saved, stopTrace>>

\* get_transcription_status resolves with status
StatusReply(status) ==
    /\ stopPc = "status"
    /\ IF \/ ~status.is_processing /\ status.chunks_in_queue = 0
          \/ status.last_activity_ms > QuietPeriod /\ status.chunks_in_queue = 0
       THEN /\ transcriptionComplete' = TRUE
            /\ AfterLoop(TRUE, elapsedTime)
            /\ UNCHANGED <<isCallApi, elapsedTime, transcriptsRef, saved>>
       ELSE /\ stopPc' = "pollwait"
            /\ waitUntil' = now + POLL_INTERVAL
            /\ ui' = IF status.chunks_in_queue > 0
                     THEN [ui EXCEPT !.summaryStatus = "processing"] ELSE ui
            /\ UNCHANGED recVars
            /\ UNCHANGED <<isCallApi, elapsedTime, transcriptionComplete,
                           unlistenComplete, transcriptsRef, saved, stopTrace>>

\* get_transcription_status resolves
StatusResolved == \E status \in TranscriptionStatus : StatusReply(status)

\* the poll wait ends: elapsedTime += POLL_INTERVAL, then the loop condition
PollWaitDone ==
    /\ stopPc = "pollwait"
    /\ now >= waitUntil
    /\ elapsedTime' = elapsedTime + POLL_INTERVAL
    /\ IF elapsedTime' < MAX_WAIT_TIME /\ ~transcriptionComplete
       THEN /\ stopPc' = "status"
            /\ UNCHANGED recVars
            /\ UNCHANGED <<unlistenComplete, waitUntil, ui, stopTrace>>
       ELSE AfterLoop(transcriptionComplete, elapsedTime')
    /\ UNCHANGED <<isCallApi, transcriptionComplete, transcriptsRef, saved>>

\* the forced flush not waiting for the 4 s to end
GraceDoneNoWait ==
    /\ stopPc = "grace"
    /\ stopTrace' = [stopTrace EXCEPT !.flushed = TRUE]
    /\ ForcedFlush
    /\ UNCHANGED <<isCallApi, elapsedTime, transcriptionComplete, unlistenComplete,
                   transcriptsRef, saved>>

\* the 4 s wait for late segments ends
GraceDone ==
    /\ stopPc = "grace"
    /\ now >= waitUntil
    /\ stopTrace' = [stopTrace EXCEPT !.flushed = TRUE]
    /\ ForcedFlush
    /\ UNCHANGED <<isCallApi, elapsedTime, transcriptionComplete, unlistenComplete,
                   transcriptsRef, saved>>

\* the 500 ms wait ends: api_save_transcript is invoked, or the handler finishes
SettleDone ==
    /\ stopPc = "settle"
    /\ now >= waitUntil
    /\ IF isCallApi /\ transcriptionComplete = TRUE
       THEN /\ ui' = [ui EXCEPT !.isSavingTranscript = TRUE]
            /\ saved' = Append(saved, transcriptsRef)
            /\ stopPc' = "saving"
       ELSE /\ ui' = [ui EXCEPT !.isMeetingActive = FALSE, !.isRecordingDisabled = FALSE]
            /\ stopPc' = "stopped"
            /\ UNCHANGED saved
    /\ UNCHANGED recVars
    /\ UNCHANGED <<isCallApi, elapsedTime, transcriptionComplete, unlistenComplete,
                   waitUntil, transcriptsRef, stopTrace>>

\* api_save_transcript and the calls after it resolve
SaveResolved ==
    /\ stopPc = "saving"
    /\ ui' = [ui EXCEPT !.isSavingTranscript = FALSE,
                        !.isMeetingActive = FALSE,
                        !.isRecordingDisabled = FALSE]
    /\ stopPc' = "stopped"
    /\ UNCHANGED recVars
    /\ UNCHANGED <<isCallApi, elapsedTime, transcriptionComplete, unlistenComplete,
                   waitUntil, transcriptsRef, saved, stopTrace>>

\* api_save_transcript rejects and the transcripts are cleared
SaveRejectedClearsTranscripts ==
    /\ stopPc = "saving"
    /\ StopCatch
    /\ transcripts' = <<>>
    /\ UNCHANGED <<now, transcriptBuffer, lastProcessedSequence, processingTimer,
                   transcriptCounter, drainedBy, received, lastPass, flushesInRow>>
    /\ UNCHANGED <<isCallApi, elapsedTime, transcriptionComplete, unlistenComplete,
                   waitUntil, transcriptsRef, saved, stopTrace>>

\* api_save_transcript rejects or returns no meeting_id: saveError is rethrown
SaveRejected ==
    /\ stopPc = "saving"
    /\ StopCatch
    /\ UNCHANGED recVars
    /\ UNCHANGED <<isCallApi, elapsedTime, transcriptionComplete, unlistenComplete,
                   waitUntil, transcriptsRef, saved, stopTrace>>

-----------------------------------------------------------------------------
(* handleRecordingStop2 called again while the first call is still running: the *)
(* handler has no re-entrancy guard.  The second call has its own locals; it is *)
(* followed along the path on which its first status reply declares completion  *)

NoSecondRun ==
    [pc |-> "none", isCallApi |-> FALSE, transcriptionComplete |-> FALSE,
     unlistenComplete |-> FALSE, waitUntil |-> Undefined]

firstRun == <<stopPc, isCallApi, elapsedTime, transcriptionComplete, unlistenComplete,
              waitUntil, stopTrace>>

\* handleRecordingStop2(callApi) once more, up to await listen
SecondStopRequested ==
    /\ stopPc \in {"listen", "status", "pollwait", "grace", "settle", "saving"}
    /\ second.pc = "none"
    /\ \E callApi \in BOOLEAN :
           second' = [second EXCEPT !.pc = "listen", !.isCallApi = callApi]
    /\ ui' = [ui EXCEPT !.isRecordingState = FALSE,
                        !.isRecordingDisabled = TRUE,
                        !.isProcessingTranscript = TRUE,
                        !.summaryStatus = "processing"]
    /\ UNCHANGED recVars
    /\ UNCHANGED <<firstRun, transcriptsRef, saved>>

SecondListenResolved ==
    /\ second.pc = "listen"
    /\ second' = [second EXCEPT !.pc = "status", !.unlistenComplete = TRUE,
                                !.transcriptionComplete = FALSE]
    /\ UNCHANGED recVars
    /\ UNCHANGED <<firstRun, ui, transcriptsRef, saved>>

\* the second call's catch
SecondListenRejected ==
    /\ second.pc = "listen"
    /\ second' = [second EXCEPT !.pc = "failed"]
    /\ ui' = [ui EXCEPT !.summaryStatus = "idle",
                        !.isProcessingTranscript = FALSE,
                        !.isStopping = FALSE,
                        !.isSavingTranscript = FALSE,
                        !.isRecordingDisabled = FALSE]
    /\ UNCHANGED recVars
    /\ UNCHANGED <<firstRun, transcriptsRef, saved>>

\* the second call's first status reply shows an empty queue and nothing processing
SecondStatusIdle ==
    /\ second.pc = "status"
    /\ second' = [second EXCEPT !.pc = "grace", !.transcriptionComplete = TRUE,
                                !.unlistenComplete = FALSE,
                                !.waitUntil = now + GraceDelay]
    /\ UNCHANGED recVars
    /\ UNCHANGED <<firstRun, ui, transcriptsRef, saved>>

\* the second call's final buffer flush
SecondGraceDone ==
    /\ second.pc = "grace"
    /\ now >= second.waitUntil
    /\ finalFlushRef
    /\ UNCHANGED now
    /\ ui' = [ui EXCEPT !.summaryStatus = "idle",
                        !.isProcessingTranscript = FALSE,
                        !.isStopping = FALSE]
    /\ second' = [second EXCEPT !.pc = "settle", !.waitUntil = now + SettleDelay]
    /\ UNCHANGED <<firstRun, transcriptsRef, saved>>

\* the second call's save guard and api_save_transcript
SecondSettleDone ==
    /\ second.pc = "settle"
    /\ now >= second.waitUntil
    /\ IF second.isCallApi /\ second.transcriptionComplete = TRUE
       THEN /\ ui' = [ui EXCEPT !.isSavingTranscript = TRUE]
            /\ saved' = Append(saved, transcriptsRef)
            /\ second' = [second EXCEPT !.pc = "saving"]
       ELSE /\ ui' = [ui EXCEPT !.isMeetingActive = FALSE, !.isRecordingDisabled = FALSE]
            /\ second' = [second EXCEPT !.pc = "stopped"]
            /\ UNCHANGED saved
    /\ UNCHANGED recVars
    /\ UNCHANGED <<firstRun, transcriptsRef>>

\* the second call's save succeeds or fails
SecondSaveSettled ==
    /\ second.pc = "saving"
    /\ \E ok \in BOOLEAN :
         IF ok
         THEN /\ ui' = [ui EXCEPT !.isSavingTranscript = FALSE,
                                  !.isMeetingActive = FALSE,
                                  !.isRecordingDisabled = FALSE]
              /\ second' = [second EXCEPT !.pc = "stopped"]
         ELSE /\ ui' = [ui EXCEPT !.summaryStatus = "idle",
                                  !.isProcessingTranscript = FALSE,
                                  !.isStopping = FALSE,
                                  !.isSavingTranscript = FALSE,
                                  !.isRecordingDisabled = FALSE]
              /\ second' = [second EXCEPT !.pc = "failed"]
    /\ UNCHANGED recVars
    /\ UNCHANGED <<firstRun, transcriptsRef, saved>>

\* Home has mounted and no recording has been started
InitStop ==
    /\ stopPc = "idle"
    /\ isCallApi = FALSE
    /\ elapsedTime = 0
    /\ transcriptionComplete = FALSE
    /\ unlistenComplete = FALSE
    /\ waitUntil = Undefined
    /\ ui = [isRecordingState |-> FALSE, isRecordingDisabled |-> FALSE,
             isProcessingTranscript |-> FALSE, isStopping |-> FALSE,
             isSavingTranscript |-> FALSE, isMeetingActive |-> FALSE,
             summaryStatus |-> "idle"]
    /\ transcriptsRef = <<>>
    /\ saved = <<>>
    /\ stopTrace = [drainEnd |-> "none", flushed |-> FALSE]
    /\ second = NoSecondRun

\* the provider and Home are mounted; Home's transcript-update listener is registered
Mounted == [provider |-> TRUE, unsubscribed |-> 0,
            page |-> TRUE, unlistenFn |-> "set", listening |-> TRUE]

InitMount == mount = Mounted

\* no session is running: nothing produced, no get_transcript_history call made
NoRehydration == [seen |-> FALSE, query |-> "none", history |-> 0, produced |-> 0, next |-> 1]

InitRehydrate == rehydrate = NoRehydration

\* no auto-start-recording event has been handled
InitAutoStart == autoStart = [invoked |-> 0, awaited |-> 0]

\* the state check effect has run at mount: its closure holds the isRecording of the
\* first render, useState(false)
InitStateCheck == stateCheck = [isRecording |-> FALSE, awaited |-> 0, last |-> "none"]

-----------------------------------------------------------------------------
(* The reconciler alone, from page mount *)

InitRec ==
    /\ now = 0
    /\ transcriptBuffer = <<>>
    /\ lastProcessedSequence = 0
    /\ processingTimer = Undefined
    /\ transcriptCounter = 0
    /\ transcripts = <<>>
    /\ drainedBy = <<>>
    /\ received = {}
    /\ lastPass = [forceFlush |-> FALSE, sequential |-> {}, drained |-> {}, added |-> {}]
    /\ flushesInRow = 0

Arrival ==
    \E s \in SequenceIds, c \in ChunkTimes :
        /\ transcriptCounter < MaxArrivals
        /\ TranscriptUpdate([sequence_id |-> s, chunk_start_time |-> c])

NextRec ==
    \/ Arrival /\ UNCHANGED <<syncVars, stopVars, second, mount, rehydrate, autoStart, stateCheck>>
    \/ TimerFire /\ UNCHANGED <<syncVars, stopVars, second, mount, rehydrate, autoStart, stateCheck>>
    \/ FinalFlush /\ UNCHANGED <<syncVars, stopVars, second, mount, rehydrate, autoStart, stateCheck>>
    \/ TickToTimer /\ UNCHANGED <<syncVars, stopVars, second, mount, rehydrate, autoStart, stateCheck>>
    \/ TickLate /\ UNCHANGED <<syncVars, stopVars, second, mount, rehydrate, autoStart, stateCheck>>

\* the provider mounts at any moment of the backend's life (a page reload)
Init == InitRec /\ InitSync /\ InitStop /\ InitMount /\ InitRehydrate /\ InitAutoStart /\ InitStateCheck

\* the application is launched: the backend is idle
InitLaunch == Init /\ backend = BackendIdle

SpecRec == InitLaunch /\ [][NextRec]_vars

-----------------------------------------------------------------------------
(* The reconciler fed in order, without gaps or duplicates: 1, 2, 3, 4, 5 *)

ArrivalInOrder ==
    \E c \in ChunkTimes :
        /\ transcriptCounter < 5
        /\ TranscriptUpdate([sequence_id |-> transcriptCounter + 1,
                             chunk_start_time |-> c])

NextInOrder ==
    \/ ArrivalInOrder /\ UNCHANGED <<syncVars, stopVars, second, mount, rehydrate, autoStart, stateCheck>>
    \/ TimerFire /\ UNCHANGED <<syncVars, stopVars, second, mount, rehydrate, autoStart, stateCheck>>
    \/ TickToTimer /\ UNCHANGED <<syncVars, stopVars, second, mount, rehydrate, autoStart, stateCheck>>
    \/ TickLate /\ UNCHANGED <<syncVars, stopVars, second, mount, rehydrate, autoStart, stateCheck>>

SpecInOrder == InitLaunch /\ [][NextInOrder]_vars

-----------------------------------------------------------------------------
(* The reconciler fed 1, 2, 4, 5 promptly and 3 late.  The producer's chunks    *)
(* start in sequence order; 3 is delivered only when every earlier delivery is *)
(* older than the staleness threshold.                                         *)

DeliveryOrder == <<1, 2, 4, 5, 3>>

EarlierArrivalTimes ==
    {IdTime(transcriptBuffer[i].id) : i \in 1..Len(transcriptBuffer)}
    \cup {IdTime(transcripts[i].id) : i \in 1..Len(transcripts)}

ArrivalDelayed ==
    /\ transcriptCounter < Len(DeliveryOrder)
    /\ LET s == DeliveryOrder[transcriptCounter + 1]
       IN  /\ s = 3 => \A t \in EarlierArrivalTimes : now - t > staleThreshold
           /\ \E c \in {s, s + 1} :
                 TranscriptUpdate([sequence_id |-> s, chunk_start_time |-> c])

\* the pause before segment 3 is delivered; the debounce timer has run on time
TickDelay ==
    /\ transcriptCounter = Len(DeliveryOrder) - 1
    /\ processingTimer = Undefined
    /\ \E t \in EarlierArrivalTimes : now - t <= staleThreshold
    /\ Advance(staleThreshold + 1)

NextDelayed ==
    \/ ArrivalDelayed /\ UNCHANGED <<syncVars, stopVars, second, mount, rehydrate, autoStart, stateCheck>>
    \/ TimerFire /\ UNCHANGED <<syncVars, stopVars, second, mount, rehydrate, autoStart, stateCheck>>
    \/ TickToTimer /\ UNCHANGED <<syncVars, stopVars, second, mount, rehydrate, autoStart, stateCheck>>
    \/ TickDelay /\ UNCHANGED <<syncVars, stopVars, second, mount, rehydrate, autoStart, stateCheck>>

SpecDelayed == InitLaunch /\ [][NextDelayed]_vars

-----------------------------------------------------------------------------
(* The recording state synchronizer of one observer, with its backend *)

NextSync ==
    \/ BackendStart /\ UNCHANGED <<recVars, stopVars, second, mount, rehydrate, autoStart, stateCheck>>
    \/ BackendPause /\ UNCHANGED <<recVars, stopVars, second, mount, rehydrate, autoStart, stateCheck>>
    \/ BackendResume /\ UNCHANGED <<recVars, stopVars, second, mount, rehydrate, autoStart, stateCheck>>
    \/ BackendStop /\ UNCHANGED <<recVars, stopVars, second, mount, rehydrate, autoStart, stateCheck>>
    \/ BackendReply /\ UNCHANGED <<recVars, stopVars, second, mount, rehydrate, autoStart, stateCheck>>
    \/ LoseEvent /\ UNCHANGED <<recVars, stopVars, second, mount, rehydrate, autoStart, stateCheck>>
    \/ RegisterListener /\ UNCHANGED <<recVars, stopVars, second, mount, rehydrate, autoStart, stateCheck>>
    \/ RegisterFails /\ UNCHANGED <<recVars, stopVars, second, mount, rehydrate, autoStart, stateCheck>>
    \/ OnRecordingStarted /\ UNCHANGED <<recVars, stopVars, second, mount, rehydrate, autoStart, stateCheck>>
    \/ OnRecordingStopped /\ UNCHANGED <<recVars, stopVars, second, mount, rehydrate, autoStart, stateCheck>>
    \/ OnRecordingPaused /\ UNCHANGED <<recVars, stopVars, second, mount, rehydrate, autoStart, stateCheck>>
    \/ OnRecordingResumed /\ UNCHANGED <<recVars, stopVars, second, mount, rehydrate, autoStart, stateCheck>>
    \/ PollTick /\ UNCHANGED <<recVars, stopVars, second, mount, rehydrate, autoStart, stateCheck>>
    \/ SyncSettle /\ UNCHANGED <<recVars, stopVars, second, mount, rehydrate, autoStart, stateCheck>>

SpecSync == Init /\ [][NextSync]_vars

\* calls are answered, answers are handled and armed intervals tick; again and again
\* a call is answered by the backend rather than failing.  Events may still be lost
SyncFairness ==
    /\ WF_vars(BackendReply /\ UNCHANGED <<recVars, stopVars, second, mount, rehydrate, autoStart, stateCheck>>)
    /\ SF_vars(BackendReplyOk /\ UNCHANGED <<recVars, stopVars, second, mount, rehydrate, autoStart, stateCheck>>)
    /\ WF_vars(SyncSettle /\ UNCHANGED <<recVars, stopVars, second, mount, rehydrate, autoStart, stateCheck>>)
    /\ WF_vars(PollTick /\ UNCHANGED <<recVars, stopVars, second, mount, rehydrate, autoStart, stateCheck>>)

SpecSyncFair == Init /\ [][NextSync]_vars /\ SyncFairness

-----------------------------------------------------------------------------
(* One recording of Home with its stop: the reconciler under the stop handler *)

Draining == stopPc \in {"listen", "status", "pollwait"}

\* the next segment of the recording arrives: while recording, or late, once
\* draining ended
ArrivalStop ==
    /\ stopPc # "idle"
    /\ ~Draining
    /\ transcriptCounter < MaxStopArrivals
    /\ \E c \in ChunkTimes :
           TranscriptUpdate([sequence_id |-> transcriptCounter + 1, chunk_start_time |-> c])

Waiting == stopPc \in {"pollwait", "grace", "settle"}

\* the pending timers' due times
Deadlines ==
    (IF processingTimer # Undefined THEN {processingTimer} ELSE {})
        \cup (IF Waiting THEN {waitUntil} ELSE {})
        \cup (IF second.pc \in {"grace", "settle"} THEN {second.waitUntil} ELSE {})

\* time passes until the next timer is due; React has committed the render by then
TickStop ==
    /\ Deadlines # {}
    /\ \A d \in Deadlines : now < d
    /\ transcriptsRef = transcripts
    /\ \E d \in Deadlines :
           /\ \A e \in Deadlines : d <= e
           /\ Advance(d - now)

\* time passes until shortly before the wait for late segments or for updates ends
TickBeforeWait ==
    /\ stopPc \in {"grace", "settle"}
    /\ \A d \in Deadlines : now < d /\ waitUntil - ArrivalLead <= d
    /\ now < waitUntil - ArrivalLead
    /\ transcriptsRef = transcripts
    /\ Advance(waitUntil - ArrivalLead - now)

NextStop ==
    \/ handleRecordingStart /\ UNCHANGED <<syncVars, second, mount, rehydrate, autoStart, stateCheck>>
    \/ handleRecordingStop2 /\ UNCHANGED <<syncVars, second, mount, rehydrate, autoStart, stateCheck>>
    \/ ListenResolved /\ UNCHANGED <<syncVars, second, mount, rehydrate, autoStart, stateCheck>>
    \/ ListenRejected /\ UNCHANGED <<syncVars, second, mount, rehydrate, autoStart, stateCheck>>
    \/ OnTranscriptionComplete /\ UNCHANGED <<syncVars, second, mount, rehydrate, autoStart, stateCheck>>
    \/ StatusResolved /\ UNCHANGED <<syncVars, second, mount, rehydrate, autoStart, stateCheck>>
    \/ StatusRejected /\ UNCHANGED <<syncVars, second, mount, rehydrate, autoStart, stateCheck>>
    \/ PollWaitDone /\ UNCHANGED <<syncVars, second, mount, rehydrate, autoStart, stateCheck>>
    \/ GraceDone /\ UNCHANGED <<syncVars, second, mount, rehydrate, autoStart, stateCheck>>
    \/ SettleDone /\ UNCHANGED <<syncVars, second, mount, rehydrate, autoStart, stateCheck>>
    \/ SaveResolved /\ UNCHANGED <<syncVars, second, mount, rehydrate, autoStart, stateCheck>>
    \/ SaveRejected /\ UNCHANGED <<syncVars, second, mount, rehydrate, autoStart, stateCheck>>
    \/ CommitRender /\ UNCHANGED <<syncVars, second, mount, rehydrate, autoStart, stateCheck>>
    \/ ArrivalStop /\ UNCHANGED <<syncVars, stopVars, second, mount, rehydrate, autoStart, stateCheck>>
    \/ TimerFire /\ UNCHANGED <<syncVars, stopVars, second, mount, rehydrate, autoStart, stateCheck>>
    \/ TickStop /\ UNCHANGED <<syncVars, stopVars, second, mount, rehydrate, autoStart, stateCheck>>
    \/ TickBeforeWait /\ UNCHANGED <<syncVars, stopVars, second, mount, rehydrate, autoStart, stateCheck>>

SpecStop == InitLaunch /\ [][NextStop]_vars

-----------------------------------------------------------------------------
(* A stop whose transcription never finishes: no transcription-complete event, *)
(* every status reply shows chunks in the queue, every call succeeds            *)

StatusBusy ==
    \E status \in TranscriptionStatus :
        /\ status.chunks_in_queue > 0
        /\ StatusReply(status)

NextDrainBusy ==
    \/ handleRecordingStart /\ UNCHANGED <<syncVars, second, mount, rehydrate, autoStart, stateCheck>>
    \/ handleRecordingStop2 /\ UNCHANGED <<syncVars, second, mount, rehydrate, autoStart, stateCheck>>
    \/ ListenResolved /\ UNCHANGED <<syncVars, second, mount, rehydrate, autoStart, stateCheck>>
    \/ StatusBusy /\ UNCHANGED <<syncVars, second, mount, rehydrate, autoStart, stateCheck>>
    \/ PollWaitDone /\ UNCHANGED <<syncVars, second, mount, rehydrate, autoStart, stateCheck>>
    \/ SettleDone /\ UNCHANGED <<syncVars, second, mount, rehydrate, autoStart, stateCheck>>
    \/ CommitRender /\ UNCHANGED <<syncVars, second, mount, rehydrate, autoStart, stateCheck>>
    \/ ArrivalStop /\ UNCHANGED <<syncVars, stopVars, second, mount, rehydrate, autoStart, stateCheck>>
    \/ TimerFire /\ UNCHANGED <<syncVars, stopVars, second, mount, rehydrate, autoStart, stateCheck>>
    \/ TickStop /\ UNCHANGED <<syncVars, stopVars, second, mount, rehydrate, autoStart, stateCheck>>

\* the event loop runs every callback that is ready, and time passes
SpecDrainBusy == InitLaunch /\ [][NextDrainBusy]_vars /\ WF_vars(NextDrainBusy)

-----------------------------------------------------------------------------
(* A stop whose transcription has already finished: every status reply shows an *)
(* empty queue and nothing processing, whatever the last activity               *)

StatusIdle ==
    \E status \in TranscriptionStatus :
        /\ status.chunks_in_queue = 0
        /\ ~status.is_processing
        /\ StatusReply(status)

NextDrainIdle ==
    \/ handleRecordingStart /\ UNCHANGED <<syncVars, second, mount, rehydrate, autoStart, stateCheck>>
    \/ handleRecordingStop2 /\ UNCHANGED <<syncVars, second, mount, rehydrate, autoStart, stateCheck>>
    \/ ListenResolved /\ UNCHANGED <<syncVars, second, mount, rehydrate, autoStart, stateCheck>>
    \/ OnTranscriptionComplete /\ UNCHANGED <<syncVars, second, mount, rehydrate, autoStart, stateCheck>>
    \/ StatusIdle /\ UNCHANGED <<syncVars, second, mount, rehydrate, autoStart, stateCheck>>
    \/ GraceDone /\ UNCHANGED <<syncVars, second, mount, rehydrate, autoStart, stateCheck>>
    \/ SettleDone /\ UNCHANGED <<syncVars, second, mount, rehydrate, autoStart, stateCheck>>
    \/ SaveResolved /\ UNCHANGED <<syncVars, second, mount, rehydrate, autoStart, stateCheck>>
    \/ SaveRejected /\ UNCHANGED <<syncVars, second, mount, rehydrate, autoStart, stateCheck>>
    \/ CommitRender /\ UNCHANGED <<syncVars, second, mount, rehydrate, autoStart, stateCheck>>
    \/ ArrivalStop /\ UNCHANGED <<syncVars, stopVars, second, mount, rehydrate, autoStart, stateCheck>>
    \/ TimerFire /\ UNCHANGED <<syncVars, stopVars, second, mount, rehydrate, autoStart, stateCheck>>
    \/ TickStop /\ UNCHANGED <<syncVars, stopVars, second, mount, rehydrate, autoStart, stateCheck>>
    \/ TickBeforeWait /\ UNCHANGED <<syncVars, stopVars, second, mount, rehydrate, autoStart, stateCheck>>

SpecDrainIdle == InitLaunch /\ [][NextDrainIdle]_vars

-----------------------------------------------------------------------------
(* A stop triggered twice, from the controls and from window.handleRecordingStop, *)
(* with a transcription that has already finished                                *)

NextStopTwice ==
    \/ handleRecordingStart /\ UNCHANGED <<syncVars, second, mount, rehydrate, autoStart, stateCheck>>
    \/ handleRecordingStop2 /\ UNCHANGED <<syncVars, second, mount, rehydrate, autoStart, stateCheck>>
    \/ ListenResolved /\ UNCHANGED <<syncVars, second, mount, rehydrate, autoStart, stateCheck>>
    \/ ListenRejected /\ UNCHANGED <<syncVars, second, mount, rehydrate, autoStart, stateCheck>>
    \/ StatusIdle /\ UNCHANGED <<syncVars, second, mount, rehydrate, autoStart, stateCheck>>
    \/ GraceDone /\ UNCHANGED <<syncVars, second, mount, rehydrate, autoStart, stateCheck>>
    \/ SettleDone /\ UNCHANGED <<syncVars, second, mount, rehydrate, autoStart, stateCheck>>
    \/ SaveResolved /\ UNCHANGED <<syncVars, second, mount, rehydrate, autoStart, stateCheck>>
    \/ SaveRejected /\ UNCHANGED <<syncVars, second, mount, rehydrate, autoStart, stateCheck>>
    \/ SecondStopRequested /\ UNCHANGED <<syncVars, mount, rehydrate, autoStart, stateCheck>>
    \/ SecondListenResolved /\ UNCHANGED <<syncVars, mount, rehydrate, autoStart, stateCheck>>
    \/ SecondListenRejected /\ UNCHANGED <<syncVars, mount, rehydrate, autoStart, stateCheck>>
    \/ SecondStatusIdle /\ UNCHANGED <<syncVars, mount, rehydrate, autoStart, stateCheck>>
    \/ SecondGraceDone /\ UNCHANGED <<syncVars, mount, rehydrate, autoStart, stateCheck>>
    \/ SecondSettleDone /\ UNCHANGED <<syncVars, mount, rehydrate, autoStart, stateCheck>>
    \/ SecondSaveSettled /\ UNCHANGED <<syncVars, mount, rehydrate, autoStart, stateCheck>>
    \/ CommitRender /\ UNCHANGED <<syncVars, second, mount, rehydrate, autoStart, stateCheck>>
    \/ ArrivalStop /\ UNCHANGED <<syncVars, stopVars, second, mount, rehydrate, autoStart, stateCheck>>
    \/ TimerFire /\ UNCHANGED <<syncVars, stopVars, second, mount, rehydrate, autoStart, stateCheck>>
    \/ TickStop /\ UNCHANGED <<syncVars, stopVars, second, mount, rehydrate, autoStart, stateCheck>>

SpecStopTwice == InitLaunch /\ [][NextStopTwice]_vars

-----------------------------------------------------------------------------
(* The reconciler between start and stop: segments arrive in any order, also   *)
(* less than the debounce delay apart, and no forced flush runs.  Timers that *)
(* are due fire and time passes                                               *)

ArrivalBurst ==
    \E s \in SequenceIds, c \in ChunkTimes :
        /\ transcriptCounter < MaxBurst
        /\ TranscriptUpdate([sequence_id |-> s, chunk_start_time |-> c])

NextTimer ==
    \/ ArrivalBurst /\ UNCHANGED <<syncVars, stopVars, second, mount, rehydrate, autoStart, stateCheck>>
    \/ TimerFire /\ UNCHANGED <<syncVars, stopVars, second, mount, rehydrate, autoStart, stateCheck>>
    \/ TickToTimer /\ UNCHANGED <<syncVars, stopVars, second, mount, rehydrate, autoStart, stateCheck>>
    \/ TickPart /\ UNCHANGED <<syncVars, stopVars, second, mount, rehydrate, autoStart, stateCheck>>
    \/ TickLate /\ UNCHANGED <<syncVars, stopVars, second, mount, rehydrate, autoStart, stateCheck>>

TimerDue == processingTimer # Undefined /\ now >= processingTimer

\* a timer that is due does not stay due for ever: its callback runs; and time passes
\* until a pending timer is due
TimerFairness ==
    /\ []<>(~TimerDue)
    /\ WF_vars(TickToTimer /\ UNCHANGED <<syncVars, stopVars, second, mount, rehydrate, autoStart, stateCheck>>)

SpecTimer == InitLaunch /\ [][NextTimer]_vars /\ TimerFairness

-----------------------------------------------------------------------------
(* A reduction pass that fails part-way: an exception is thrown inside          *)
(* processBufferedTranscripts, which has no try/catch, after one of its loops   *)
(* and before setTranscripts; it leaves the timer callback uncaught             *)

\* the timer pass throws after its sequential drain or after its age-based drain
TimerFireThrows ==
    /\ processingTimer # Undefined
    /\ now >= processingTimer
    /\ LET seqd == SequentialDrain(transcriptBuffer, lastProcessedSequence, <<>>)
           rest == RemainderDrain(seqd.buffer, FALSE)
       IN  /\ lastProcessedSequence' = seqd.lastProcessedSequence
           /\ \E afterLoop \in {"sequential", "remainder"} :
                 /\ transcriptBuffer' =
                       IF afterLoop = "sequential" THEN seqd.buffer ELSE rest.buffer
                 /\ lastPass' =
                       [forceFlush |-> FALSE,
                        sequential |-> SequenceIdsOf(seqd.sortedTranscripts),
                        drained |-> BufferKeys(transcriptBuffer) \ BufferKeys(transcriptBuffer'),
                        added |-> {}]
    /\ processingTimer' = Undefined
    /\ UNCHANGED <<now, transcriptCounter, transcripts, drainedBy, received, flushesInRow>>

NextPassFails ==
    \/ ArrivalBurst /\ UNCHANGED <<syncVars, stopVars, second, mount, rehydrate, autoStart, stateCheck>>
    \/ TimerFire /\ UNCHANGED <<syncVars, stopVars, second, mount, rehydrate, autoStart, stateCheck>>
    \/ TimerFireThrows /\ UNCHANGED <<syncVars, stopVars, second, mount, rehydrate, autoStart, stateCheck>>
    \/ FinalFlush /\ UNCHANGED <<syncVars, stopVars, second, mount, rehydrate, autoStart, stateCheck>>
    \/ TickToTimer /\ UNCHANGED <<syncVars, stopVars, second, mount, rehydrate, autoStart, stateCheck>>
    \/ TickLate /\ UNCHANGED <<syncVars, stopVars, second, mount, rehydrate, autoStart, stateCheck>>

SpecPassFails == InitLaunch /\ [][NextPassFails]_vars

-----------------------------------------------------------------------------
(* The observer detaches: the provider and Home unmount, each at any moment, also *)
(* while its listener registration is still awaited.  A component that has       *)
(* unmounted renders nothing; its callbacks still run when they are called.      *)
(* The state queries are left aside: syncWithBackend subscribes and arms nothing *)

\* the cleanup of the provider's listener effect
ProviderUnmount ==
    /\ mount.provider
    /\ mount' = [mount EXCEPT !.provider = FALSE, !.unsubscribed = Len(unsubscribers)]
    /\ pollingIntervalRef' = stopPolling[1]
    /\ armedIntervals' = stopPolling[2]
    /\ UNCHANGED <<state, unsubscribers, setupFailed, syncPending, syncReplies, lastSync,
                   synced, backend, channel>>

\* Home's setupListener: await listen('transcript-update') resolves
PageListenResolved ==
    /\ mount.unlistenFn = "pending"
    /\ mount' = [mount EXCEPT !.unlistenFn = "set", !.listening = TRUE]

\* Home's setupListener: await listen('transcript-update') rejects (the catch)
PageListenRejected ==
    /\ mount.unlistenFn = "pending"
    /\ mount' = [mount EXCEPT !.unlistenFn = "failed"]

\* the cleanup of Home's reconciler effect
PageUnmount ==
    /\ mount.page
    /\ mount' = [mount EXCEPT !.page = FALSE,
                              !.listening = IF mount.unlistenFn = "set" THEN FALSE ELSE @]
    /\ processingTimer' = Undefined
    /\ UNCHANGED <<now, transcriptBuffer, lastProcessedSequence, transcriptCounter,
                   transcripts, drainedBy, received, lastPass, flushesInRow>>

\* a segment is delivered to the subscribed transcript-update listener
ArrivalDetach ==
    /\ mount.listening
    /\ transcriptCounter < MaxStopArrivals
    /\ \E c \in ChunkTimes :
           TranscriptUpdate([sequence_id |-> transcriptCounter + 1, chunk_start_time |-> c])

\* the application is launched; Home's listener registration is awaited
InitDetach ==
    /\ InitRec /\ InitSync /\ InitStop
    /\ backend = BackendIdle
    /\ mount = [Mounted EXCEPT !.unlistenFn = "pending", !.listening = FALSE]
    /\ InitRehydrate /\ InitAutoStart /\ InitStateCheck

NextDetach ==
    \/ BackendStart /\ UNCHANGED <<recVars, stopVars, second, mount, rehydrate, autoStart, stateCheck>>
    \/ BackendPause /\ UNCHANGED <<recVars, stopVars, second, mount, rehydrate, autoStart, stateCheck>>
    \/ BackendResume /\ UNCHANGED <<recVars, stopVars, second, mount, rehydrate, autoStart, stateCheck>>
    \/ BackendStop /\ UNCHANGED <<recVars, stopVars, second, mount, rehydrate, autoStart, stateCheck>>
    \/ LoseEvent /\ UNCHANGED <<recVars, stopVars, second, mount, rehydrate, autoStart, stateCheck>>
    \/ RegisterListener /\ UNCHANGED <<recVars, stopVars, second, mount, rehydrate, autoStart, stateCheck>>
    \/ RegisterFails /\ UNCHANGED <<recVars, stopVars, second, mount, rehydrate, autoStart, stateCheck>>
    \/ OnRecordingStarted /\ UNCHANGED <<recVars, stopVars, second, mount, rehydrate, autoStart, stateCheck>>
    \/ OnRecordingStopped /\ UNCHANGED <<recVars, stopVars, second, mount, rehydrate, autoStart, stateCheck>>
    \/ OnRecordingPaused /\ UNCHANGED <<recVars, stopVars, second, mount, rehydrate, autoStart, stateCheck>>
    \/ OnRecordingResumed /\ UNCHANGED <<recVars, stopVars, second, mount, rehydrate, autoStart, stateCheck>>
    \/ ProviderUnmount /\ UNCHANGED <<recVars, stopVars, second, rehydrate, autoStart, stateCheck>>
    \/ PageListenResolved /\ UNCHANGED <<recVars, syncVars, stopVars, second, rehydrate, autoStart, stateCheck>>
    \/ PageListenRejected /\ UNCHANGED <<recVars, syncVars, stopVars, second, rehydrate, autoStart, stateCheck>>
    \/ PageUnmount /\ UNCHANGED <<syncVars, stopVars, second, rehydrate, autoStart, stateCheck>>
    \/ ArrivalDetach /\ UNCHANGED <<syncVars, stopVars, second, mount, rehydrate, autoStart, stateCheck>>
    \/ TimerFire /\ UNCHANGED <<syncVars, stopVars, second, mount, rehydrate, autoStart, stateCheck>>
    \/ TickToTimer /\ UNCHANGED <<syncVars, stopVars, second, mount, rehydrate, autoStart, stateCheck>>

SpecDetach == InitDetach /\ [][NextDetach]_vars

-----------------------------------------------------------------------------
(* Home attaches while a session is running (a page reload): the provider's     *)
(* mount sync reports the recording, Home's effect on recordingState.isRecording *)
(* fetches get_transcript_history, and the reconciler receives the segments that *)
(* the backend produces from now on                                             *)

\* the backend's transcript history formatted as Transcripts (segments 1..n)
FormattedHistory(n) ==
    [i \in 1..n |-> [id |-> <<Null, i>>, sequence_id |-> i, chunk_start_time |-> 1]]

\* the effect runs because recordingState.isRecording has changed: syncFromBackend
\* up to its await invoke('get_transcript_history')
syncFromBackend ==
    /\ rehydrate.seen # state.isRecording
    /\ rehydrate' = [rehydrate EXCEPT
                        !.seen = state.isRecording,
                        !.query = IF state.isRecording /\ Len(transcripts) = 0
                                  THEN "pending" ELSE @]

\* the backend answers get_transcript_history with what it has produced so far
HistoryAnswered ==
    /\ rehydrate.query = "pending"
    /\ rehydrate' = [rehydrate EXCEPT !.query = "answered", !.history = rehydrate.produced]

\* get_transcript_history rejects: the catch logs
HistoryRejected ==
    /\ rehydrate.query = "pending"
    /\ rehydrate' = [rehydrate EXCEPT !.query = "failed"]
    /\ UNCHANGED recVars

\* syncFromBackend after its await: setTranscripts(formattedTranscripts)
HistoryResolved ==
    /\ rehydrate.query = "answered"
    /\ rehydrate' = [rehydrate EXCEPT !.query = "done"]
    /\ transcripts' = FormattedHistory(rehydrate.history)
    /\ UNCHANGED <<now, transcriptBuffer, lastProcessedSequence, processingTimer,
                   transcriptCounter, drainedBy, received, lastPass, flushesInRow>>

\* the transcription pipeline produces the next segment
BackendProduces ==
    /\ rehydrate.produced < MaxBurst
    /\ rehydrate' = [rehydrate EXCEPT !.produced = @ + 1]

\* the next segment produced since Home attached is delivered to its listener
ArrivalProduced ==
    /\ rehydrate.next <= rehydrate.produced
    /\ rehydrate' = [rehydrate EXCEPT !.next = @ + 1]
    /\ \E c \in ChunkTimes :
           TranscriptUpdate([sequence_id |-> rehydrate.next, chunk_start_time |-> c])

\* the session is running and has produced some segments when Home attaches
InitAttach ==
    /\ InitRec /\ InitSync /\ InitStop /\ InitMount /\ InitAutoStart /\ InitStateCheck
    /\ backend = [is_recording |-> TRUE, is_paused |-> FALSE]
    /\ \E n \in 0..1 :
           rehydrate = [NoRehydration EXCEPT !.produced = n, !.next = n + 1]

NextAttach ==
    \/ BackendReply /\ UNCHANGED <<recVars, stopVars, second, mount, rehydrate, autoStart, stateCheck>>
    \/ SyncSettle /\ UNCHANGED <<recVars, stopVars, second, mount, rehydrate, autoStart, stateCheck>>
    \/ syncFromBackend /\ UNCHANGED <<recVars, syncVars, stopVars, second, mount, autoStart, stateCheck>>
    \/ HistoryAnswered /\ UNCHANGED <<recVars, syncVars, stopVars, second, mount, autoStart, stateCheck>>
    \/ HistoryRejected /\ UNCHANGED <<syncVars, stopVars, second, mount, autoStart, stateCheck>>
    \/ HistoryResolved /\ UNCHANGED <<syncVars, stopVars, second, mount, autoStart, stateCheck>>
    \/ BackendProduces /\ UNCHANGED <<recVars, syncVars, stopVars, second, mount, autoStart, stateCheck>>
    \/ ArrivalProduced /\ UNCHANGED <<syncVars, stopVars, second, mount, autoStart, stateCheck>>
    \/ TimerFire /\ UNCHANGED <<syncVars, stopVars, second, mount, rehydrate, autoStart, stateCheck>>
    \/ TickToTimer /\ UNCHANGED <<syncVars, stopVars, second, mount, rehydrate, autoStart, stateCheck>>

SpecAttach == InitAttach /\ [][NextAttach]_vars

-----------------------------------------------------------------------------
(* Meeting detection: the auto-start-recording listener of Home beside the stop  *)
(* handler.  isRecordingRef and isMeetingActiveRef hold the committed values of  *)
(* isRecording and isMeetingActive.  One recording is followed through its stop, *)
(* which may be triggered twice; no segment arrives                              *)

\* the auto-start-recording listener up to its await invoke(
\* 'start_recording_with_devices_and_meeting'), or returning at its guard
OnAutoStartRecording ==
    /\ autoStart.invoked < MaxStarts
    /\ IF ui.isRecordingState \/ ui.isMeetingActive
       THEN UNCHANGED autoStart
       ELSE autoStart' = [invoked |-> autoStart.invoked + 1,
                          awaited |-> autoStart.awaited + 1]
    /\ UNCHANGED <<recVars, stopVars, second>>

\* the start command resolves: the listener updates the UI state
AutoStartResolved ==
    /\ autoStart.awaited > 0
    /\ autoStart' = [autoStart EXCEPT !.awaited = @ - 1]
    /\ ui' = [ui EXCEPT !.isRecordingState = TRUE, !.isMeetingActive = TRUE]
    /\ transcripts' = <<>>
    /\ received' = {}
    /\ stopPc' = IF stopPc = "idle" THEN "recording" ELSE stopPc
    /\ UNCHANGED <<now, transcriptBuffer, lastProcessedSequence, processingTimer,
                   transcriptCounter, drainedBy, lastPass, flushesInRow>>
    /\ UNCHANGED <<isCallApi, elapsedTime, transcriptionComplete, unlistenComplete,
                   waitUntil, transcriptsRef, saved, stopTrace, second>>

\* the start command rejects: the listener's catch reports it
AutoStartRejected ==
    /\ autoStart.awaited > 0
    /\ autoStart' = [autoStart EXCEPT !.awaited = @ - 1]
    /\ UNCHANGED <<recVars, stopVars, second>>

NextAutoStart ==
    \/ handleRecordingStart /\ UNCHANGED <<syncVars, second, mount, rehydrate, autoStart, stateCheck>>
    \/ handleRecordingStop2 /\ UNCHANGED <<syncVars, second, mount, rehydrate, autoStart, stateCheck>>
    \/ ListenResolved /\ UNCHANGED <<syncVars, second, mount, rehydrate, autoStart, stateCheck>>
    \/ ListenRejected /\ UNCHANGED <<syncVars, second, mount, rehydrate, autoStart, stateCheck>>
    \/ StatusIdle /\ UNCHANGED <<syncVars, second, mount, rehydrate, autoStart, stateCheck>>
    \/ GraceDone /\ UNCHANGED <<syncVars, second, mount, rehydrate, autoStart, stateCheck>>
    \/ SettleDone /\ UNCHANGED <<syncVars, second, mount, rehydrate, autoStart, stateCheck>>
    \/ SaveResolved /\ UNCHANGED <<syncVars, second, mount, rehydrate, autoStart, stateCheck>>
    \/ SaveRejected /\ UNCHANGED <<syncVars, second, mount, rehydrate, autoStart, stateCheck>>
    \/ SecondStopRequested /\ UNCHANGED <<syncVars, mount, rehydrate, autoStart, stateCheck>>
    \/ SecondListenResolved /\ UNCHANGED <<syncVars, mount, rehydrate, autoStart, stateCheck>>
    \/ SecondListenRejected /\ UNCHANGED <<syncVars, mount, rehydrate, autoStart, stateCheck>>
    \/ SecondStatusIdle /\ UNCHANGED <<syncVars, mount, rehydrate, autoStart, stateCheck>>
    \/ SecondGraceDone /\ UNCHANGED <<syncVars, mount, rehydrate, autoStart, stateCheck>>
    \/ SecondSettleDone /\ UNCHANGED <<syncVars, mount, rehydrate, autoStart, stateCheck>>
    \/ SecondSaveSettled /\ UNCHANGED <<syncVars, mount, rehydrate, autoStart, stateCheck>>
    \/ OnAutoStartRecording /\ UNCHANGED <<syncVars, mount, rehydrate, stateCheck>>
    \/ AutoStartResolved /\ UNCHANGED <<syncVars, mount, rehydrate, stateCheck>>
    \/ AutoStartRejected /\ UNCHANGED <<syncVars, mount, rehydrate, stateCheck>>
    \/ TickStop /\ UNCHANGED <<syncVars, stopVars, second, mount, rehydrate, autoStart, stateCheck>>

SpecAutoStart == InitLaunch /\ [][NextAutoStart]_vars

-----------------------------------------------------------------------------
(* Recording after recording on one mounted Home: the reconciler effect has run  *)
(* once, at mount, and every session of the backend numbers its segments from 1. *)
(* Segments arrive in order while Home records; each stop finds the             *)
(* transcription finished.  A further recording is followed when the one before *)
(* it received a segment                                                        *)

\* handleRecordingStart for a further recording, after the stop handler has ended
handleRecordingStartAgain ==
    /\ stopPc \in {"stopped", "failed"}
    /\ received # {}
    /\ transcriptCounter < MaxArrivals
    /\ stopPc' = "recording"
    /\ \E notified \in BOOLEAN :
           ui' = [ui EXCEPT !.isRecordingState = notified, !.isMeetingActive = TRUE]
    /\ transcripts' = <<>>
    /\ received' = {}
    /\ UNCHANGED <<now, transcriptBuffer, lastProcessedSequence, processingTimer,
                   transcriptCounter, drainedBy, lastPass, flushesInRow>>
    /\ UNCHANGED <<isCallApi, elapsedTime, transcriptionComplete, unlistenComplete,
                   waitUntil, transcriptsRef, saved, stopTrace>>

\* the next segment of the running session is delivered to the listener
ArrivalSession ==
    /\ stopPc = "recording"
    /\ transcriptCounter < MaxArrivals
    /\ \E c \in ChunkTimes :
           TranscriptUpdate([sequence_id |-> Cardinality(received) + 1,
                             chunk_start_time |-> c])

NextSessions ==
    \/ handleRecordingStart /\ UNCHANGED <<syncVars, second, mount, rehydrate, autoStart, stateCheck>>
    \/ handleRecordingStartAgain /\ UNCHANGED <<syncVars, second, mount, rehydrate, autoStart, stateCheck>>
    \/ handleRecordingStop2 /\ UNCHANGED <<syncVars, second, mount, rehydrate, autoStart, stateCheck>>
    \/ ListenResolved /\ UNCHANGED <<syncVars, second, mount, rehydrate, autoStart, stateCheck>>
    \/ ListenRejected /\ UNCHANGED <<syncVars, second, mount, rehydrate, autoStart, stateCheck>>
    \/ StatusIdle /\ UNCHANGED <<syncVars, second, mount, rehydrate, autoStart, stateCheck>>
    \/ GraceDone /\ UNCHANGED <<syncVars, second, mount, rehydrate, autoStart, stateCheck>>
    \/ SettleDone /\ UNCHANGED <<syncVars, second, mount, rehydrate, autoStart, stateCheck>>
    \/ SaveResolved /\ UNCHANGED <<syncVars, second, mount, rehydrate, autoStart, stateCheck>>
    \/ SaveRejected /\ UNCHANGED <<syncVars, second, mount, rehydrate, autoStart, stateCheck>>
    \/ CommitRender /\ UNCHANGED <<syncVars, second, mount, rehydrate, autoStart, stateCheck>>
    \/ ArrivalSession /\ UNCHANGED <<syncVars, stopVars, second, mount, rehydrate, autoStart, stateCheck>>
    \/ TimerFire /\ UNCHANGED <<syncVars, stopVars, second, mount, rehydrate, autoStart, stateCheck>>
    \/ TickStop /\ UNCHANGED <<syncVars, stopVars, second, mount, rehydrate, autoStart, stateCheck>>

SpecSessions == InitLaunch /\ [][NextSessions]_vars

-----------------------------------------------------------------------------
(* Home's recording state check: checkRecordingState runs at mount and then    *)
(* every second, beside the backend starting and stopping recordings and the   *)
(* start and stop handlers.  Its effect depends on [setIsMeetingActive] alone, *)
(* a state setter handed down by the sidebar context: the effect runs once and *)
(* the isRecording that checkRecordingState reads is the one of that render.   *)

\* checkRecordingState up to its await invoke('is_recording')
checkRecordingState ==
    /\ stateCheck.awaited < MaxChecks
    /\ stateCheck' = [stateCheck EXCEPT !.awaited = @ + 1]
    /\ UNCHANGED <<recVars, stopVars, second>>

\* is_recording resolves with the backend's answer: the two branches of the check
CheckResolved ==
    /\ stateCheck.awaited > 0
    /\ LET isCurrentlyRecording == backend.is_recording
           isRecording == stateCheck.isRecording
       IN  /\ stateCheck' = [stateCheck EXCEPT
                                !.awaited = @ - 1,
                                !.last = IF isCurrentlyRecording THEN "recording" ELSE "idle"]
           /\ ui' = IF isCurrentlyRecording /\ ~isRecording
                    THEN [ui EXCEPT !.isRecordingState = TRUE, !.isMeetingActive = TRUE]
                    ELSE IF ~isCurrentlyRecording /\ isRecording
                    THEN [ui EXCEPT !.isRecordingState = FALSE]
                    ELSE ui
    /\ UNCHANGED recVars
    /\ UNCHANGED <<stopPc, isCallApi, elapsedTime, transcriptionComplete, unlistenComplete,
                   waitUntil, transcriptsRef, saved, stopTrace, second>>

\* is_recording rejects: the catch reports it
CheckRejected ==
    /\ stateCheck.awaited > 0
    /\ stateCheck' = [stateCheck EXCEPT !.awaited = @ - 1, !.last = "failed"]
    /\ UNCHANGED <<recVars, stopVars, second>>

NextCheck ==
    \/ BackendStart /\ UNCHANGED <<recVars, stopVars, second, mount, rehydrate, autoStart, stateCheck>>
    \/ BackendStop /\ UNCHANGED <<recVars, stopVars, second, mount, rehydrate, autoStart, stateCheck>>
    \/ handleRecordingStart /\ UNCHANGED <<syncVars, second, mount, rehydrate, autoStart, stateCheck>>
    \/ handleRecordingStop2 /\ UNCHANGED <<syncVars, second, mount, rehydrate, autoStart, stateCheck>>
    \/ ListenResolved /\ UNCHANGED <<syncVars, second, mount, rehydrate, autoStart, stateCheck>>
    \/ ListenRejected /\ UNCHANGED <<syncVars, second, mount, rehydrate, autoStart, stateCheck>>
    \/ StatusIdle /\ UNCHANGED <<syncVars, second, mount, rehydrate, autoStart, stateCheck>>
    \/ GraceDone /\ UNCHANGED <<syncVars, second, mount, rehydrate, autoStart, stateCheck>>
    \/ SettleDone /\ UNCHANGED <<syncVars, second, mount, rehydrate, autoStart, stateCheck>>
    \/ SaveResolved /\ UNCHANGED <<syncVars, second, mount, rehydrate, autoStart, stateCheck>>
    \/ SaveRejected /\ UNCHANGED <<syncVars, second, mount, rehydrate, autoStart, stateCheck>>
    \/ checkRecordingState /\ UNCHANGED <<syncVars, mount, rehydrate, autoStart>>
    \/ CheckResolved /\ UNCHANGED <<syncVars, mount, rehydrate, autoStart>>
    \/ CheckRejected /\ UNCHANGED <<syncVars, mount, rehydrate, autoStart>>
    \/ TickStop /\ UNCHANGED <<syncVars, stopVars, second, mount, rehydrate, autoStart, stateCheck>>

SpecCheck == InitLaunch /\ [][NextCheck]_vars

-----------------------------------------------------------------------------
(* Properties of the reconciler *)

\* the order of the emitted list: chunk_start_time (0 when absent), then sequence_id
KeyOf(t) == <<IF t.chunk_start_time = Undefined THEN 0 ELSE t.chunk_start_time,
              t.sequence_id>>

KeyLeq(a, b) == \/ KeyOf(a)[1] < KeyOf(b)[1]
                \/ KeyOf(a)[1] = KeyOf(b)[1] /\ KeyOf(a)[2] <= KeyOf(b)[2]

Tiers == {drainedBy[s] : s \in DOMAIN drainedBy}

\* C1: the emitted transcript list is sorted ascending by (chunk_start_time,
\* sequence_id) after every reduction pass, timer-fired or forced, whatever the
\* arrival order and whichever drain tier handled each segment.
C1_EmittedSorted ==
    \A i, j \in 1..Len(transcripts) : i < j => KeyLeq(transcripts[i], transcripts[j])

\* three segments emitted, one that arrived later sorted before an earlier one,
\* by passes of more than one tier
C1_Witness ==
    /\ Len(transcripts) = 3
    /\ \E i, j \in 1..3 : i < j /\ transcripts[i].id[2] > transcripts[j].id[2]
    /\ "forced" \in Tiers
    /\ Tiers \cap {"recent", "stale"} # {}

\* C2: the emitted transcript list holds each sequence_id at most once, for any
\* arrival order and any number of duplicate deliveries.
C2_NoDuplicateSequenceId ==
    \A i, j \in 1..Len(transcripts) :
        transcripts[i].sequence_id = transcripts[j].sequence_id => i = j

\* a pass has drained a re-delivered copy of an emitted segment and added nothing
C2_Witness ==
    /\ lastPass.drained # {}
    /\ lastPass.added = {}
    /\ lastPass.drained \subseteq SequenceIdsOf(transcripts)
    /\ Len(transcripts) >= 2

\* C3: when every buffered segment is a re-delivery of a sequence_id that is
\* already in the emitted list (also one below lastProcessedSequence), the next
\* reduction pass leaves the emitted list exactly as it was.
C3_RedeliveryLeavesOutput ==
    [][BufferKeys(transcriptBuffer) \subseteq SequenceIdsOf(transcripts)
         => transcripts' = transcripts]_vars

\* a timer pass that advanced nothing has just dropped a re-delivered copy of a
\* segment below the watermark
C3_Witness ==
    /\ ~lastPass.forceFlush
    /\ lastPass.sequential = {}
    /\ lastPass.added = {}
    /\ \E s \in lastPass.drained : s < lastProcessedSequence
    /\ lastPass.drained \subseteq SequenceIdsOf(transcripts)

\* C4: a forced flush that follows a forced flush with no arrival in between
\* drains nothing and leaves the emitted list, the buffer and
\* lastProcessedSequence as they were.
C4_ForcedFlushIdempotent ==
    [][(flushesInRow >= 1 /\ finalFlushRef)
         => /\ UNCHANGED <<transcripts, transcriptBuffer, lastProcessedSequence>>
            /\ lastPass'.drained = {}]_vars

\* two forced flushes in a row, the first of which emitted out of the buffer
C4_Witness ==
    /\ flushesInRow = 2
    /\ "forced" \in Tiers
    /\ Len(transcripts) >= 2
    /\ lastPass.forceFlush /\ lastPass.drained = {}

\* C5: from a fresh reconciler, when segments 1..5 have arrived in order before
\* the debounce timer fires, that single timer pass drains all five through the
\* sequential drain and ends with lastProcessedSequence = 5 and an empty buffer.
C5_InOrderSinglePass ==
    [][(/\ TimerFire
        /\ lastProcessedSequence = 0
        /\ transcripts = <<>>
        /\ [i \in 1..Len(transcriptBuffer) |-> transcriptBuffer[i].sequence_id]
             = <<1, 2, 3, 4, 5>>)
         => /\ lastProcessedSequence' = 5
            /\ transcriptBuffer' = <<>>
            /\ SequenceIdsOf(transcripts') = 1..5
            /\ Len(transcripts') = 5
            /\ lastPass'.sequential = 1..5
            /\ \A s \in 1..5 : drainedBy'[s] = "sequential"]_vars

\* the first pass ever drained 1..5 in sequence
C5_Witness ==
    /\ lastPass.sequential = 1..5
    /\ lastPass.added = 1..5
    /\ lastProcessedSequence = 5
    /\ transcriptBuffer = <<>>
    /\ Len(transcripts) = 5

EmittedIds == SequenceIdsOf(transcripts)

EmittedOrder == [i \in 1..Len(transcripts) |-> transcripts[i].sequence_id]

AgeTiers == {"recent", "stale"}

\* C6 as claimed: with 1, 2, 4, 5 prompt and 3 delayed beyond the staleness
\* threshold, 1, 2, 4, 5 are emitted first, 3 is emitted later through the
\* age-based path, and the final order is 1, 2, 3, 4, 5.
C6_AsClaimed ==
    3 \in EmittedIds
      => /\ {1, 2, 4, 5} \subseteq EmittedIds
         /\ drainedBy[3] \in AgeTiers
         /\ EmittedOrder = <<1, 2, 3, 4, 5>>

\* C6 amended: passes that run before 3 arrives emit 1 and 2 through the
\* sequential drain and 4 and 5 through the age-based path; 3 is emitted later
\* through the sequential drain, never the age-based path; once 3 is emitted
\* all five are, in the order 1, 2, 3, 4, 5.
C6_DelayedSegmentSequential ==
    /\ 3 \in EmittedIds
         => /\ {1, 2, 4, 5} \subseteq EmittedIds
            /\ drainedBy[3] = "sequential"
            /\ EmittedOrder = <<1, 2, 3, 4, 5>>
    /\ \A s \in {1, 2} : s \in EmittedIds => drainedBy[s] = "sequential"
    /\ \A s \in {4, 5} : (s \in EmittedIds /\ 3 \notin received)
                            => drainedBy[s] \in AgeTiers

\* 4 and 5 went out by age before 3 came, 3 followed in sequence
C6_Witness ==
    /\ EmittedOrder = <<1, 2, 3, 4, 5>>
    /\ drainedBy[4] \in AgeTiers /\ drainedBy[5] \in AgeTiers
    /\ drainedBy[3] = "sequential"
    /\ lastPass.sequential = {3}
    /\ \E i \in 1..5 : /\ transcripts[i].sequence_id = 3
                       /\ \A j \in 1..5 : j # i =>
                            IdTime(transcripts[i].id) - IdTime(transcripts[j].id)
                              > staleThreshold

-----------------------------------------------------------------------------
(* Properties of the recording state synchronizer *)

\* a step in which a failed get_recording_state call reaches syncWithBackend's catch
FailedSyncStep == QueryError \in syncReplies /\ QueryError \notin syncReplies'

\* C7: a failed sync changes nothing: the five cached fields keep their values
\* and the polling interval stays armed
C7_FailedSyncKeepsState ==
    [][FailedSyncStep => UNCHANGED <<state, pollingIntervalRef, armedIntervals>>]_vars

\* a sync has just failed while the cache holds a recording with durations and polls
C7_Witness ==
    /\ lastSync = "failed"
    /\ state.isRecording
    /\ state.recordingDuration # Null
    /\ pollingIntervalRef # Undefined
    /\ pollingIntervalRef \in armedIntervals

\* C8: in every reachable cache state isActive = (isRecording /\ ~isPaused)
C8_IsActiveDerived ==
    state.isActive = (state.isRecording /\ ~state.isPaused)

-----------------------------------------------------------------------------
(* Properties of the stop handler *)

\* C9: the transcript is handed to api_save_transcript only after the forced flush
\* has run, the forced flush runs only after draining declared completion or reached
\* the maximum wait, and nothing is handed over while the handler is still draining
C9_PersistAfterFlushAfterDrain ==
    /\ saved # <<>> => stopTrace.flushed
    /\ stopTrace.flushed => stopTrace.drainEnd \in {"complete", "maxwait"}
    /\ Draining => saved = <<>>

\* C10: when the transcript is handed to api_save_transcript, every segment received
\* before that moment is in the handed-over list and the buffer is empty
C10_HandOverComplete ==
    [][saved' # saved =>
          /\ received \subseteq SequenceIdsOf(saved'[Len(saved')])
          /\ transcriptBuffer = <<>>]_vars

\* C11: a stop that never receives transcription-complete and whose status replies
\* never show an empty queue leaves the drain loop when elapsedTime reaches
\* MAX_WAIT_TIME and then runs the forced flush: it does not wait forever
C11_MaxWaitEndsDraining ==
    (stopPc = "listen") ~>
        (/\ stopTrace = [drainEnd |-> "maxwait", flushed |-> TRUE]
         /\ elapsedTime = MAX_WAIT_TIME
         /\ lastPass.forceFlush)

\* the drain loop has been left at the maximum wait and the forced flush has run
C11_Witness ==
    /\ stopTrace = [drainEnd |-> "maxwait", flushed |-> TRUE]
    /\ elapsedTime = MAX_WAIT_TIME
    /\ ~transcriptionComplete
    /\ lastPass.forceFlush
    /\ stopPc = "settle"

\* C12: when the first status reply shows an empty queue and nothing processing,
\* draining declares completion on that reply: no poll interval is waited
\* (elapsedTime stays 0) and the quiet period plays no part
C12_FirstIdleReplyCompletes ==
    [][(stopPc = "status" /\ stopPc' # "status") =>
          /\ stopPc' = "grace"
          /\ transcriptionComplete'
          /\ stopTrace'.drainEnd = "complete"
          /\ elapsedTime = 0 /\ elapsedTime' = 0
          /\ now' = now]_vars

\* completion has been declared on the first reply and the grace wait is running
C12_Witness ==
    /\ stopPc = "grace"
    /\ transcriptionComplete
    /\ stopTrace.drainEnd = "complete"
    /\ elapsedTime = 0
    /\ waitUntil = now + GraceDelay

\* the cached state equals the backend's
CacheMatchesBackend ==
    /\ state.isRecording = backend.is_recording
    /\ state.isPaused = backend.is_paused
    /\ state.isActive = (backend.is_recording /\ ~backend.is_paused)
    /\ (state.recordingDuration = Null) = ~backend.is_recording
    /\ (state.activeDuration = Null) = ~backend.is_recording

\* C13: if the backend state stops changing and state queries eventually succeed,
\* the cached state eventually equals the backend state and stays equal, whatever
\* happens to the events
C13_EventuallyConsistent ==
    <>[][backend' = backend]_vars => <>[]CacheMatchesBackend

\* C14 as claimed: once a sync response has been applied the cache holds its value,
\* whether an event-driven update was applied before or after it
C14_SyncWinsWhicheverLast ==
    synced # NoSync => state = synced

\* C14: a sync response that is applied overwrites all five cached fields with its
\* values, whatever event-driven updates were applied before it
C14_SyncOverwritesCache ==
    [][\A r \in syncReplies :
          (r.ok /\ r \notin syncReplies') =>
              state' = [isRecording |-> r.is_recording,
                        isPaused |-> r.is_paused,
                        isActive |-> r.is_active,
                        recordingDuration |-> r.recording_duration,
                        activeDuration |-> r.active_duration]]_vars

\* a sync response has overwritten the cache of an observer that had applied
\* recording-started (polling armed) with a paused recording and its durations
C14_Witness ==
    /\ lastSync = "ok"
    /\ state = synced
    /\ pollingIntervalRef # Undefined
    /\ state.isPaused
    /\ state.recordingDuration # Null

\* the flags of Home when nothing is recorded or processed
IdleFlags ==
    [isRecordingState |-> FALSE, isRecordingDisabled |-> FALSE,
     isProcessingTranscript |-> FALSE, isStopping |-> FALSE,
     isSavingTranscript |-> FALSE, isMeetingActive |-> FALSE,
     summaryStatus |-> "idle"]

\* C15: after a failure inside the stop handler (listener registration, status query
\* or persistence) the handler ends with every flag at its idle value
C15_FlagsIdleAfterFailure ==
    (\/ stopPc = "failed"
     \/ stopPc = "stopped" /\ stopTrace.drainEnd = "break") => ui = IdleFlags

\* C16: when the persistence call fails the reconciled transcript list is left exactly
\* as it was, and the failure ends the handler in its catch (error toast) instead of
\* being dropped
C16_SaveFailureKeepsTranscript ==
    [][(stopPc = "saving" /\ stopPc' # "saving" /\ stopPc' # "stopped") =>
          /\ stopPc' = "failed"
          /\ transcripts' = transcripts
          /\ transcriptsRef' = transcriptsRef
          /\ saved' = saved]_vars

\* the save of a non-empty transcript has failed and the list is still the one handed over
C16_Witness ==
    /\ stopPc = "failed"
    /\ Len(saved) = 1
    /\ transcripts # <<>>
    /\ saved[1] = transcripts
    /\ transcriptsRef = transcripts

\* C17: a stop whose draining ended at the maximum wait runs the forced flush and,
\* when persistence was requested, has handed the transcript to api_save_transcript
\* by the time it ends
C17_TimeoutStillPersists ==
    /\ stopTrace.drainEnd = "maxwait" => stopTrace.flushed
    /\ (stopPc \in {"stopped", "failed"} /\ stopTrace.drainEnd = "maxwait" /\ isCallApi)
           => saved # <<>>

\* C18: a failed get_transcription_status query does not end draining: the step that
\* ends a status query either declares completion or waits for the next poll
C18_StatusFailureTransient ==
    [][(stopPc = "status" /\ stopPc' # "status") =>
          \/ transcriptionComplete'
          \/ stopPc' = "pollwait" /\ unlistenComplete' /\ stopTrace'.drainEnd = "none"]_vars

\* C19: for one recording the transcript is handed to api_save_transcript at most
\* once, even when the stop is triggered again before the first run has finished
C19_SinglePersistence ==
    Len(saved) <= 1

\* C20: immediately after a forced flush the buffer is empty and every segment that
\* was buffered, whatever its age and whatever gaps precede it, is in the output
C20_ForcedFlushEmptiesBuffer ==
    [][finalFlushRef =>
          /\ transcriptBuffer' = <<>>
          /\ BufferKeys(transcriptBuffer) \subseteq SequenceIdsOf(transcripts')]_vars

\* a forced flush has just emitted a segment that a gap separates from the watermark
C20_Witness ==
    /\ lastPass.forceFlush
    /\ transcriptBuffer = <<>>
    /\ \E s \in lastPass.added :
           /\ s > lastProcessedSequence + 1
           /\ s \in SequenceIdsOf(transcripts)
           /\ drainedBy[s] = "forced"

\* C21: the cached state is always idle, recording or paused: isPaused implies
\* isRecording, whatever the order, loss and duplication of the recording events
C21_PausedImpliesRecording ==
    state.isPaused => state.isRecording

\* C22: whenever the cache says a session is recording, learned from recording-started
\* or from the sync at mount, the polling interval is armed
C22_PollingWhileRecording ==
    state.isRecording => (pollingIntervalRef # Undefined /\ pollingIntervalRef \in armedIntervals)

\* C23: after the provider has unmounted no recording listener is subscribed and no
\* polling interval is armed; after Home has unmounted its transcript listener is not
\* subscribed and no reduction timer is pending; also when the unmount came while
\* the listener registration was still awaited
C23_DetachLeavesNothing ==
    /\ ~mount.provider => (\A i \in 1..Len(RecordingEvents) : ~Listening(RecordingEvents[i]))
                             /\ armedIntervals = {}
    /\ ~mount.page => ~mount.listening /\ processingTimer = Undefined

\* the highest n such that 1..n have all been emitted
HighestContiguous(ids) ==
    CHOOSE n \in 0..Cardinality(ids) : (1..n) \subseteq ids /\ (n + 1) \notin ids

\* C24: after every reduction pass lastProcessedSequence is the highest contiguous
\* emitted sequence, for any arrival order
C24_WatermarkContiguous ==
    lastProcessedSequence = HighestContiguous(EmittedIds)

\* C25: the buffer holds only unprocessed segments: none at or below
\* lastProcessedSequence and none whose sequence_id is already emitted
C25_BufferOnlyUnprocessed ==
    \A s \in BufferKeys(transcriptBuffer) :
        s > lastProcessedSequence /\ s \notin EmittedIds

FlushStep == stopTrace'.flushed /\ ~stopTrace.flushed

\* C28 as claimed: every run goes through DrainingTranscription, GraceWindow,
\* ForcedFlush: the forced flush runs only out of the grace window, once its 4 s
\* have fully elapsed
C28_FlushAfterGrace ==
    [][FlushStep => (stopPc = "grace" /\ now >= waitUntil)]_vars

\* C28 amended: when draining ended by declared completion or by a failed status
\* query the grace window starts at that moment, lasts 4 s, and the forced flush
\* runs only when it has fully elapsed; when draining ended at the maximum wait the
\* forced flush runs at once, with no grace window
C28_GraceUnlessTimeout ==
    [][/\ (stopPc' = "grace" /\ stopPc # "grace") =>
            /\ waitUntil' = now' + GraceDelay
            /\ stopTrace'.drainEnd \in {"complete", "break"}
       /\ (stopPc' = "grace" /\ stopPc = "grace") => waitUntil' = waitUntil
       /\ FlushStep =>
            IF stopTrace'.drainEnd = "maxwait"
            THEN Draining /\ now' = now /\ elapsedTime' >= MAX_WAIT_TIME
            ELSE stopPc = "grace" /\ now >= waitUntil]_vars

\* the forced flush has just run, 4 s after draining declared completion, and has
\* emitted a segment that arrived during the grace window
C28_Witness ==
    /\ stopPc = "settle"
    /\ stopTrace = [drainEnd |-> "complete", flushed |-> TRUE]
    /\ lastPass.forceFlush
    /\ waitUntil = now + SettleDelay
    /\ now >= GraceDelay
    /\ lastPass.added # {}

\* a status reply that shows the transcription done
ShowsDone(status) ==
    /\ status.chunks_in_queue = 0
    /\ ~status.is_processing \/ status.last_activity_ms > QuietPeriod

\* transcriptionComplete is set only by the completion event or by a reply that
\* shows the transcription done
CompletionOnlyDeclaredWhenDone ==
    [][(transcriptionComplete' /\ ~transcriptionComplete) =>
          \/ OnTranscriptionComplete
          \/ \E status \in TranscriptionStatus : ShowsDone(status) /\ StatusReply(status)]_vars

\* C29: draining is left for the grace window or the forced flush only when
\* completion was declared (by the completion event, or by a status reply showing an
\* empty queue with nothing processing or with no activity for the quiet period) or
\* when the maximum wait was reached; with no completion event and no such reply
\* the forced flush is not reached before the maximum wait
C29_DrainEndsOnlyWhenDone ==
    /\ CompletionOnlyDeclaredWhenDone
    /\ [][(stopPc \in {"status", "pollwait"} /\ stopPc' \in {"grace", "settle"}) =>
             transcriptionComplete' \/ elapsedTime' >= MAX_WAIT_TIME]_vars

\* C30: get_transcript_history is called only when the cache says recording and the
\* local transcript is empty, and applying its result removes or overwrites no segment
\* that the reduction step emitted while the query was in flight
C30_RehydrationKeepsEmitted ==
    [][/\ (rehydrate'.query = "pending" /\ rehydrate.query # "pending") =>
            state.isRecording /\ transcripts = <<>>
       /\ (rehydrate'.query = "done" /\ rehydrate.query # "done") =>
            \A i \in 1..Len(transcripts) :
                \E j \in 1..Len(transcripts') : transcripts'[j] = transcripts[i]]_vars

-----------------------------------------------------------------------------
(* Properties of the debounce timer *)

\* a timer-fired reduction pass: the pending timer goes without an arrival
TimerPassStep ==
    /\ processingTimer # Undefined
    /\ processingTimer' = Undefined
    /\ transcriptCounter' = transcriptCounter

\* C31: the reduction timer is a single slot that every accepted arrival cancels and
\* arms again, 10 ms ahead: a timer pass runs only when the latest accepted arrival is
\* at least the debounce delay old, so arrivals spaced less than the delay apart share
\* one pass, and the pass leaves no timer pending
C31_OnePassPerBurst ==
    /\ [][transcriptCounter' # transcriptCounter
             => processingTimer' = now + DebounceDelay]_vars
    /\ [][TimerPassStep
             => /\ \A i \in 1..Len(transcriptBuffer) :
                      now - IdTime(transcriptBuffer[i].id) >= DebounceDelay
                /\ transcriptBuffer' = <<>>]_vars

\* one timer pass has emitted two segments that were accepted at different times,
\* less than the debounce delay apart
C31_Witness ==
    /\ processingTimer = Undefined
    /\ ~lastPass.forceFlush
    /\ \E i, j \in 1..Len(transcripts) :
           /\ {transcripts[i].sequence_id, transcripts[j].sequence_id} \subseteq lastPass.added
           /\ IdTime(transcripts[i].id) < IdTime(transcripts[j].id)
           /\ IdTime(transcripts[j].id) - IdTime(transcripts[i].id) < DebounceDelay

-----------------------------------------------------------------------------
(* Properties of the recording event listeners *)

\* a listener of the provider runs: the cache or the polling timer changes and
\* nothing else does
ListenerStep ==
    /\ <<state, pollingIntervalRef, armedIntervals>>'
           # <<state, pollingIntervalRef, armedIntervals>>
    /\ UNCHANGED <<unsubscribers, setupFailed, syncPending, syncReplies, lastSync, synced,
                   backend, channel>>

\* what the handling of event e does to the cache and to the polling timer
HandlingOf(e) ==
    CASE e = "recording-started" ->
             /\ state'.isRecording
             /\ pollingIntervalRef' # Undefined
      [] e = "recording-stopped" ->
             /\ state' = IdleState
             /\ pollingIntervalRef' = Undefined
             /\ armedIntervals' = {}
      [] OTHER ->
             /\ state'.isRecording = state.isRecording
             /\ state'.recordingDuration = state.recordingDuration
             /\ state'.activeDuration = state.activeDuration
             /\ state'.isPaused = (e = "recording-paused")
             /\ state'.isActive = (e = "recording-resumed")
             /\ UNCHANGED <<pollingIntervalRef, armedIntervals>>

\* C32: handling recording-stopped sets the cache to idle with both durations null and
\* stops polling, whatever the cache was; handling recording-paused or
\* recording-resumed changes isPaused and isActive only: every listener step is the
\* handling of an event that is deliverable to its subscribed listener
C32_ListenerEffects ==
    [][ListenerStep => \E e \in channel : Listening(e) /\ HandlingOf(e)]_vars

\* recording-stopped has been handled on a cache that a sync had set to recording
C32_Witness ==
    /\ synced # NoSync
    /\ synced.isRecording
    /\ synced.recordingDuration # Null
    /\ state = IdleState
    /\ pollingIntervalRef = Undefined
    /\ "recording-stopped" \in channel

\* C33: the transcription-complete listener is unsubscribed exactly once, when the drain
\* loop is left (on completion, at the maximum wait or after a failed status query):
\* it is subscribed only while the status is polled, and so never once the handler
\* has ended, in Stopped or in Failed
C33_CompleteListenerReleased ==
    /\ [](unlistenComplete => stopPc \in {"status", "pollwait"})
    /\ [][unlistenComplete /\ ~unlistenComplete'
             => /\ stopPc \in {"status", "pollwait"}
                /\ stopPc' \in {"grace", "settle"}
                /\ stopTrace'.drainEnd \in {"complete", "maxwait", "break"}]_vars

\* the handler has ended after its listener was registered: in Stopped when the loop
\* was left through a failed status query, or in Failed when the save was rejected
C33_Witness ==
    /\ \/ stopPc = "stopped" /\ stopTrace.drainEnd = "break"
       \/ stopPc = "failed" /\ stopTrace.drainEnd = "complete"
    /\ ~unlistenComplete

-----------------------------------------------------------------------------
(* Properties of the auto-start-recording listener *)

\* a call of handleRecordingStop2 is between its entry and its end
StopWindow == {"listen", "status", "pollwait", "grace", "settle", "saving"}

InStopWindow == stopPc \in StopWindow \/ second.pc \in StopWindow

\* C34: from the entry of the stop handler until it has ended, in Stopped or in
\* Failed, start requests are disabled and no auto-start-recording event starts a
\* recording; once it has ended isRecordingDisabled is false again
C34_NoStartWhileStopping ==
    /\ [](InStopWindow => ui.isRecordingDisabled)
    /\ [][InStopWindow => autoStart'.invoked = autoStart.invoked]_vars
    /\ []((stopPc \in {"stopped", "failed"} /\ ~InStopWindow) => ~ui.isRecordingDisabled)

-----------------------------------------------------------------------------
(* Further properties of the recording state synchronizer *)

\* recording-stopped has been handled since the latest sync was applied, and nothing
\* has changed the cache since: polling is stopped, so every get_recording_state
\* call still in flight was issued before the stop was handled
IdleSinceStop ==
    /\ state = IdleState
    /\ armedIntervals = {}
    /\ synced # NoSync
    /\ synced.isRecording

\* C35: once recording-stopped has been handled and polling has stopped, the cache is
\* turned back to recording only by a recording-started event (which arms the polling
\* again), never by the response to a sync that was issued before the stop
C35_StaleSyncAfterStop ==
    [][IdleSinceStop /\ state'.isRecording => pollingIntervalRef' # Undefined]_vars

-----------------------------------------------------------------------------
(* Properties of a further recording *)

\* Home records a session that is not the first one since it mounted; the segments
\* accepted in it are the latest Cardinality(received) ones the listener numbered
FurtherSession == stopPc = "recording" /\ stopTrace.drainEnd # "none"

\* C36: a new recording session starts from the reconciler's initial state with the
\* cleared transcript: while the in-order segments of a second or later session arrive,
\* the buffer and the transcript hold segments of this session only, and the emitted
\* ones are exactly 1..lastProcessedSequence, all drained in sequence
C36_SessionStartsFresh ==
    FurtherSession =>
        /\ BufferKeys(transcriptBuffer) \subseteq received
        /\ \A i \in 1..Len(transcripts) :
               transcripts[i].id[2] >= transcriptCounter - Cardinality(received)
        /\ EmittedIds = 1..lastProcessedSequence

-----------------------------------------------------------------------------
(* Properties of the age-based drain *)

\* C37: with staleThreshold 100 and recentThreshold 0, a timer-fired reduction pass
\* leaves in the buffer no segment whose arrival time is not in the future, and every
\* buffered segment that follows a gap in the sequence is in the transcript after
\* the first pass that sees it, whether or not the gap has closed
C37_GapSegmentNotHeld ==
    [][TimerPassStep
          => /\ \A i \in 1..Len(transcriptBuffer') :
                    IdTime(transcriptBuffer'[i].id) > now'
             /\ \A s \in BufferKeys(transcriptBuffer) :
                    s > lastProcessedSequence + 1 => s \in SequenceIdsOf(transcripts')]_vars

\* a timer pass has emitted through the recent branch a segment beyond a gap that is
\* still open, and the buffer is empty
C37_Witness ==
    /\ processingTimer = Undefined
    /\ ~lastPass.forceFlush
    /\ transcriptBuffer = <<>>
    /\ \E s \in lastPass.added :
           /\ s > lastProcessedSequence + 1
           /\ lastProcessedSequence + 1 \notin EmittedIds
           /\ drainedBy[s] = "recent"

-----------------------------------------------------------------------------
(* Properties of Home's recording state check *)

\* an is_recording call of the state check has resolved
CheckAnswered ==
    /\ stateCheck'.awaited < stateCheck.awaited
    /\ stateCheck'.last # "failed"

\* C38: the 1-second is_recording check of Home synchronises the local isRecording
\* flag in both directions: after a successful check the flag equals the backend's
\* answer, set true when the backend records and the flag was false, set false when
\* the backend does not record and the flag was true
C38_CheckSynchronises ==
    [][CheckAnswered => ui'.isRecordingState = (stateCheck'.last = "recording")]_vars

-----------------------------------------------------------------------------
(* Properties of the auto-start-recording listener *)

\* the listener invokes start_recording_with_devices_and_meeting
StartInvoked == autoStart'.invoked > autoStart.invoked

\* C39: an auto-start-recording event starts a backend recording only when no
\* recording and no meeting is active, so of a burst of auto-start events for one
\* detected meeting one at most invokes the start command: none is invoked while an
\* earlier one is awaited
C39_StartInvokedOnce ==
    [][StartInvoked => /\ ~ui.isRecordingState
                       /\ ~ui.isMeetingActive
                       /\ autoStart.awaited = 0]_vars

-----------------------------------------------------------------------------
(* Properties of the polling interval *)

\* C40: at most one state-polling interval is armed at any time, and it is the one
\* pollingIntervalRef holds, for any sequence of recording-started and
\* recording-stopped events, duplicated started events included; a step that clears
\* the ref, as the handling of one recording-stopped event does, leaves none armed
C40_OneIntervalArmed ==
    /\ [](/\ Cardinality(armedIntervals) <= 1
          /\ armedIntervals \subseteq {pollingIntervalRef})
    /\ [][pollingIntervalRef # Undefined /\ pollingIntervalRef' = Undefined
             => armedIntervals' = {}]_vars

\* one interval is armed and a recording-started event is deliverable to its
\* listener once more: startPolling is about to run with an interval armed
C40_Witness ==
    /\ pollingIntervalRef # Undefined
    /\ armedIntervals = {pollingIntervalRef}
    /\ "recording-started" \in channel
    /\ Listening("recording-started")

====
